---- MODULE Spec2Model ----
(***************************************************************************)
(* Model of the Pain Radar pipeline: the run lifecycle of run_pipeline     *)
(* (pipeline.py), the AsyncStore operations it calls on one shared SQLite  *)
(* connection (store/core.py, store/schema.py), and the concurrent Reddit  *)
(* fetcher (reddit_async.py, retry_policy.py).                             *)
(*                                                                         *)
(* The store is modelled as two copies of the tables: the connection's     *)
(* view (tbl_posts, tbl_signals, tbl_runs), which includes the statements  *)
(* executed since the last commit, and the committed state (disk).         *)
(* conn.commit() copies the view to disk; closing the connection discards  *)
(* what was not committed.                                                 *)
(***************************************************************************)
EXTENDS Integers, Sequences, FiniteSets, TLC

\* ---------------------------------------------------------------- bounds
MaxRuns == 1        \* run_pipeline invocations (rows of table runs)
MaxFetchOnly == 1   \* run_fetch_only invocations around the run
MaxPosts == 2       \* length of the list returned by fetch_all_subreddits
MaxFaults == 1      \* injected database errors (I/O error, locked database)
MaxCalls == 4       \* store operations called outside a pipeline run

PostIds == {"p1", "p2"}
Concurrencies == {1, 2}

\* ------------------------------------------------------ program constants
NoRun == 0          \* run_id = None
NoLimit == -1       \* process_limit = None
DefaultLoadLimit == 1000

VARIABLES
    pc,               \* position of run_pipeline
    conn,             \* AsyncStore._connection is open
    tbl_posts,        \* connection view of table posts
    tbl_signals,      \* connection view of table signals
    tbl_runs,         \* connection view of table runs
    disk,             \* committed database state
    fetch_new,        \* argument of run_pipeline
    process_limit,    \* argument of run_pipeline
    max_concurrency,  \* settings.max_concurrency
    run_id,           \* local run_id of run_pipeline
    posts,            \* local posts of run_pipeline
    tasks,            \* the process_post coroutines handed to gather
    sem,              \* value of the orchestrator semaphore
    exc,              \* exception propagating out of the try block
    updates,          \* update_run calls made by this invocation
    faults,           \* database errors injected so far
    calls,            \* operations called outside run_pipeline so far
    top_signals,      \* the last get_top_signals call: arguments and rows
    fa_pc,            \* position of fetch_all_subreddits
    client,           \* the shared httpx.AsyncClient
    limit,            \* argument of fetch_all_subreddits
    top_comments,     \* argument of fetch_all_subreddits
    fetch_max_concurrency, \* argument max_concurrency of fetch_all_subreddits
    fetch_sem,        \* value of the fetcher semaphore
    fetch_tasks,      \* the fetch_posts coroutines, one per subreddit
    all_posts,        \* the list fetch_all_subreddits returns
    unprocessed,      \* the last get_unprocessed_posts call of a store client
    deduped,          \* a dedupe_ideas call, and a second one on its canonicals
    tbl_watchlists,   \* table watchlists
    tbl_alert_matches, \* table alert_matches
    checked,          \* the last check_watchlists call and how it ended
    tbl_clusters,     \* connection view of table clusters
    saved_clusters,   \* the last save_clusters call and how it ended
    clustered,        \* the last run of the cluster command and how it ended
    feed,             \* a parsed RSS feed: its entries and the posts made of them
    comment_page      \* a parsed comment page: children, limit and comments

pipe_vars == <<pc, conn, tbl_posts, tbl_signals, tbl_runs, disk, fetch_new,
               process_limit, max_concurrency, run_id, posts, tasks, sem, exc,
               updates, faults, calls, top_signals>>

fetch_vars == <<fa_pc, client, limit, top_comments, fetch_max_concurrency,
                fetch_sem, fetch_tasks, all_posts>>

\* what calls made outside run_pipeline and fetch_all_subreddits left
watch_vars == <<tbl_watchlists, tbl_alert_matches, checked>>
cluster_vars == <<tbl_clusters, saved_clusters, clustered>>
call_vars == <<unprocessed, deduped, watch_vars, cluster_vars, feed,
               comment_page>>

vars == <<pipe_vars, fetch_vars, call_vars>>

store_vars == <<tbl_posts, tbl_signals, tbl_runs, disk>>
arg_vars == <<fetch_new, process_limit, max_concurrency>>

\* -------------------------------------------------------------- helpers
RECURSIVE SeqsUpTo(_, _)
SeqsUpTo(S, n) ==
    IF n = 0 THEN {<<>>}
    ELSE LET shorter == SeqsUpTo(S, n - 1)
         IN shorter \cup {Append(s, x) : s \in {t \in shorter : Len(t) = n - 1}, x \in S}

Min(a, b) == IF a < b THEN a ELSE b

Count(s, P(_)) == Cardinality({i \in DOMAIN s : P(s[i])})

\* ------------------------------------------------------------ the schema
\* posts: id is the key; processed INTEGER DEFAULT 0
NoPost == [present |-> FALSE, processed |-> 0, fetched_at |-> 0, score |-> 0]

\* RedditPost: the fields of a post the model follows
RedditPost(id, score) == [id |-> id, score |-> score]

\* _parse_rss_entry: score=0 (not available in RSS) for every post the
\* fetcher returns
scraped(ids) == [i \in DOMAIN ids |-> RedditPost(ids[i], 0)]

\* SignalScore: practicality, profitability, distribution, competition and
\* moat, in this order
NoDims == <<0, 0, 0, 0, 0>>

\* a total that leaves out the last dimension
total_without_moat(dims) == dims[1] + dims[2] + dims[3] + dims[4]

\* SignalScore.total: the sum of the five dimension scores
total(dims) == dims[1] + dims[2] + dims[3] + dims[4] + dims[5]

\* Analysis results the analyst can return (FullAnalysis: extraction state,
\* whether a score is present, score.disqualified, the dimension scores);
\* FullAnalysis accepts any extraction state with or without a score
NoAnalysis ==
    [state |-> "none", score |-> FALSE, disqualified |-> FALSE, dims |-> NoDims]
Analyses ==
    { [state |-> "extracted", score |-> TRUE, disqualified |-> FALSE,
       dims |-> <<2, 1, 1, 1, 1>>],
      [state |-> "extracted", score |-> FALSE, disqualified |-> FALSE,
       dims |-> NoDims],
      [state |-> "not_extractable", score |-> FALSE, disqualified |-> FALSE,
       dims |-> NoDims],
      [state |-> "disqualified", score |-> TRUE, disqualified |-> TRUE,
       dims |-> <<1, 1, 0, 0, 0>>],
      [state |-> "disqualified", score |-> FALSE, disqualified |-> FALSE,
       dims |-> NoDims] }

\* The (extraction, score) pairs a caller can pass to save_signal: those
\* of an analysis, and any other pairing of an extraction with a score
StoreAnalyses ==
    Analyses \cup
    { [state |-> "extracted", score |-> TRUE, disqualified |-> FALSE,
       dims |-> <<3, 2, 2, 1, 1>>],
      [state |-> "not_extractable", score |-> TRUE, disqualified |-> FALSE,
       dims |-> <<1, 1, 1, 0, 0>>] }

\* idx_signals_post_run_unique: UNIQUE INDEX ON signals(post_id, run_id).
\* SQLite treats NULLs as distinct in a unique index, so a row whose run_id
\* is NULL never conflicts.
idx_signals_post_run_unique(sigs, post_id, rid) ==
    rid = NoRun \/ \A i \in DOMAIN sigs :
                     ~(sigs[i].post_id = post_id /\ sigs[i].run_id = rid)

\* datetime.now(UTC), as a logical clock: every operation that stamps a row
\* is preceded by a create_run or is counted in calls
Now == Len(disk.runs) + calls

\* conn.commit()
Commit(p, s, r) == [posts |-> p, signals |-> s, runs |-> r]

\* --------------------------------------------------------- AsyncStore ops
\* upsert_posts, rows 1..k of the list executed: INSERT OR REPLACE deletes
\* the old row and inserts a new one; processed is not in the column list
\* and takes its DEFAULT 0.
RECURSIVE upsert_rows(_, _, _, _)
upsert_rows(tbl, ps, k, now) ==
    IF k = 0 THEN tbl
    ELSE [upsert_rows(tbl, ps, k - 1, now) EXCEPT
            ![ps[k].id] = [present |-> TRUE, processed |-> 0, fetched_at |-> now,
                           score |-> ps[k].score]]

\* mark_post_processed: UPDATE posts SET processed = 1 WHERE id = ?
mark_post_processed(tbl, post_id) ==
    IF tbl[post_id].present
    THEN [tbl EXCEPT ![post_id].processed = 1]
    ELSE tbl

\* signals.cluster_id TEXT: NULL until save_clusters links the signal
NoCluster == <<>>

\* save_signal, the INSERT INTO signals statement
signal_row(post_id, rid, a) ==
    LET dims == IF a.score THEN a.dims ELSE NoDims
    IN [post_id |-> post_id, run_id |-> rid, extraction_state |-> a.state,
        disqualified |-> IF a.score /\ a.disqualified THEN 1 ELSE 0,
        practicality |-> dims[1], profitability |-> dims[2],
        distribution |-> dims[3], competition |-> dims[4], moat |-> dims[5],
        total_score |-> IF a.score THEN total(a.dims) ELSE 0,
        cluster_id |-> NoCluster]

\* get_top_signals without its WHERE clause
top_signals_where_nothing(row, include_disqualified) == TRUE

\* get_top_signals, the WHERE clause: i.disqualified = 0 unless
\* include_disqualified
top_signals_where(row, include_disqualified) ==
    include_disqualified \/ row.disqualified = 0

\* get_top_signals: SELECT ... FROM signals i JOIN posts p ON i.post_id =
\* p.id [WHERE i.disqualified = 0] ORDER BY i.total_score DESC LIMIT ?; rows
\* of equal total_score come in any order
select_top_signals(sigs, tbl, lim, include_disqualified) ==
    LET joined == {i \in DOMAIN sigs :
                      /\ tbl[sigs[i].post_id].present
                      /\ top_signals_where(sigs[i], include_disqualified)}
        n == Min(lim, Cardinality(joined))
        orders == {o \in [1..n -> joined] :
                      /\ \A a, b \in 1..n : a # b => o[a] # o[b]
                      /\ \A a, b \in 1..n :
                            a < b => sigs[o[a]].total_score >= sigs[o[b]].total_score
                      /\ \A i \in joined, a \in 1..n :
                            (\A b \in 1..n : o[b] # i) =>
                                sigs[i].total_score <= sigs[o[a]].total_score}
    IN {[k \in 1..n |-> sigs[o[k]]] : o \in orders}

\* the arguments and the result of a get_top_signals call
top_signals_call(lim, include_disqualified, rows) ==
    [limit |-> lim, include_disqualified |-> include_disqualified, rows |-> rows]

\* create_run: INSERT INTO runs (..., status) VALUES (..., 'running')
new_run ==
    [status |-> "running", posts_fetched |-> 0, posts_analyzed |-> 0,
     signals_saved |-> 0, qualified_signals |-> 0, errors |-> 0]

\* update_run: UPDATE runs SET ... WHERE id = ?
update_run(runs, rid, fetched, analyzed, saved, qualified, errs, status) ==
    IF rid \in DOMAIN runs
    THEN [runs EXCEPT ![rid] =
            [status |-> status, posts_fetched |-> fetched,
             posts_analyzed |-> analyzed, signals_saved |-> saved,
             qualified_signals |-> qualified, errors |-> errs]]
    ELSE runs

\* get_unprocessed_posts without its WHERE clause
unprocessed_where_nothing(row) == row.present

\* get_unprocessed_posts, the WHERE clause: processed = 0
unprocessed_where(row) == row.present /\ row.processed = 0

\* get_unprocessed_posts: SELECT * FROM posts WHERE processed = 0 ORDER BY
\* score DESC LIMIT ?; rows of equal score come in any order
get_unprocessed_posts(tbl, lim) ==
    LET un == {p \in PostIds : unprocessed_where(tbl[p])}
        n == Min(lim, Cardinality(un))
        sorted == {s \in SeqsUpTo(un, Cardinality(un)) :
                      /\ Len(s) = Cardinality(un)
                      /\ \A i, j \in DOMAIN s : i # j => s[i] # s[j]
                      /\ \A i, j \in DOMAIN s :
                            i < j => tbl[s[i]].score >= tbl[s[j]].score}
    IN {SubSeq(s, 1, n) : s \in sorted}

\* the arguments and the result of a get_unprocessed_posts call, and the
\* number of the call
unprocessed_call(call, lim, rows) == [call |-> call, limit |-> lim, rows |-> rows]

\* ------------------------------------------------------------ watchlists
\* create_watchlist: INSERT INTO watchlists (..., is_active, ...) VALUES
\* (..., 1, ...); the id is the row's position; subreddits is None
new_watchlist(keywords) == [keywords |-> keywords, is_active |-> 1]

\* get_watchlists(active_only): SELECT * FROM watchlists [WHERE is_active =
\* 1], the ids of the rows
get_watchlists(tbl, active_only) ==
    {w \in DOMAIN tbl : ~active_only \/ tbl[w].is_active = 1}

\* check_watchlists, the SELECT of the recent signals: the statement names
\* its tables `signals i` and `posts p` and refers to s.post_id and
\* s.disqualified, so SQLite rejects it (no such column) whatever the
\* tables hold
recent_signals_query == "OperationalError"

\* the arguments and the outcome of a check_watchlists call, and the number
\* of the call
check_watchlists_call(call, outcome, matches) ==
    [call |-> call, outcome |-> outcome, matches |-> matches]

\* -------------------------------------------------------------- clusters
\* str.lower() and str.replace(' ', '_') on one character of a title
lower_char(c) ==
    CASE c = "S" -> "s"
      [] c = "C" -> "c"
      [] c = "I" -> "i"
      [] OTHER -> c
replace_space(c) == IF c = " " THEN "_" ELSE c

\* cluster.title[:10]
first_ten(title) == SubSeq(title, 1, Min(10, Len(title)))

\* save_clusters: cluster_id = f"{week_start}_{cluster.title[:10].replace(' ',
\* '_').lower()}_{len(cluster.signal_ids)}", kept as its three parts
cluster_id(week_start, cluster) ==
    <<week_start,
      [k \in DOMAIN first_ten(cluster.title) |->
          lower_char(replace_space(first_ten(cluster.title)[k]))],
      Len(cluster.signal_ids)>>

\* clusters.id TEXT PRIMARY KEY
clusters_pkey(tbl, id) == \A k \in DOMAIN tbl : tbl[k].id # id

\* UPDATE signals SET cluster_id = ? WHERE id = ? for every signal id of
\* the cluster (the id of a signal is its position)
link_signals(sigs, signal_ids, id) ==
    [i \in DOMAIN sigs |->
        IF \E k \in DOMAIN signal_ids : signal_ids[k] = i
        THEN [sigs[i] EXCEPT !.cluster_id = id] ELSE sigs[i]]

\* save_clusters, the loop from cluster k on: INSERT INTO clusters, which
\* raises IntegrityError when the id is in the table, then the UPDATEs of
\* the signals; the rows written before a raise stay in the connection's
\* open transaction
RECURSIVE insert_clusters(_, _, _, _, _)
insert_clusters(tbl, sigs, clusters, k, week_start) ==
    IF k > Len(clusters)
    THEN [clusters |-> tbl, signals |-> sigs, outcome |-> "returned"]
    ELSE LET id == cluster_id(week_start, clusters[k])
         IN IF ~clusters_pkey(tbl, id)
            THEN [clusters |-> tbl, signals |-> sigs, outcome |-> "IntegrityError"]
            ELSE insert_clusters(
                     Append(tbl, [id |-> id, title |-> clusters[k].title,
                                  week_start |-> week_start]),
                     link_signals(sigs, clusters[k].signal_ids, id),
                     clusters, k + 1, week_start)

\* the arguments and the outcome of a save_clusters call, and the number of
\* the call
save_clusters_call(call, clusters, outcome) ==
    [call |-> call, clusters |-> clusters, outcome |-> outcome]

\* get_unclustered_pain_points: SELECT i.id ... FROM signals i JOIN posts p
\* ON i.post_id = p.id WHERE i.cluster_id IS NULL AND i.disqualified = 0 AND
\* created_at within the last days (every signal here is that recent); the
\* ids of the ClusterItems
get_unclustered_pain_points(sigs, tbl) ==
    {i \in DOMAIN sigs : /\ tbl[sigs[i].post_id].present
                         /\ sigs[i].cluster_id = NoCluster
                         /\ sigs[i].disqualified = 0}

\* Clusterer.cluster_items: [] for no items; otherwise the clusters of the
\* model's answer, each built with Cluster(**c) as the model gave it, or []
\* when the call or the construction raised
cluster_items(items, result) ==
    IF items = {} THEN <<>>
    ELSE IF result.raised THEN <<>>
    ELSE result.clusters

\* a run of the cluster command: the ids of the items it found, the clusters
\* it got for them, how it ended, and the number of the call
cluster_call(call, items, clusters, outcome) ==
    [call |-> call, items |-> items, clusters |-> clusters, outcome |-> outcome]

\* ------------------------------------------------------------- RSS entries
\* A link is its path, cut at every '/': the segments, each a sequence of
\* characters, and whether the link ends with '/'
link(segments, slash) == [segments |-> segments, slash |-> slash]

\* the character class [a-z0-9]
LowerAlnum ==
    {"a", "b", "c", "d", "e", "f", "g", "h", "i", "j", "k", "l", "m", "n", "o",
     "p", "q", "r", "s", "t", "u", "v", "w", "x", "y", "z",
     "0", "1", "2", "3", "4", "5", "6", "7", "8", "9"}

comments_segment == <<"c", "o", "m", "m", "e", "n", "t", "s">>

\* re.search(r"/comments/([a-z0-9]+)/", link) matches at segment i: the
\* segment is "comments", the next one is a non-empty run of [a-z0-9] and a
\* '/' follows it
matches_at(l, i) ==
    /\ i \in DOMAIN l.segments
    /\ l.segments[i] = comments_segment
    /\ i + 1 \in DOMAIN l.segments
    /\ l.segments[i + 1] # <<>>
    /\ \A k \in DOMAIN l.segments[i + 1] : l.segments[i + 1][k] \in LowerAlnum
    /\ (i + 1 < Len(l.segments) \/ l.slash)

\* _extract_post_id: match.group(1) of the leftmost match, "" without a match
extract_post_id(l) ==
    IF \E i \in DOMAIN l.segments : matches_at(l, i)
    THEN LET first == CHOOSE i \in DOMAIN l.segments :
                          /\ matches_at(l, i)
                          /\ \A j \in 1..(i - 1) : ~matches_at(l, j)
         IN l.segments[first + 1]
    ELSE <<>>

NoneEntry == [id |-> <<>>, permalink |-> link(<<>>, FALSE), parsed |-> FALSE]

\* _parse_rss_entry: None when _extract_post_id returns "", else a
\* RedditPost with id=post_id and permalink=link
parse_rss_entry(entry) ==
    IF extract_post_id(entry.link) = <<>>
    THEN NoneEntry
    ELSE [id |-> extract_post_id(entry.link), permalink |-> entry.link,
          parsed |-> TRUE]

\* _fetch_rss: for entry in feed.entries: post = _parse_rss_entry(entry,
\* subreddit); if post: posts.append(post)
RECURSIVE parse_entries(_, _)
parse_entries(entries, n) ==
    IF n = 0 THEN <<>>
    ELSE LET post == parse_rss_entry(entries[n])
         IN IF post.parsed
            THEN Append(parse_entries(entries, n - 1), post)
            ELSE parse_entries(entries, n - 1)

\* the entries of a feed and the posts _fetch_rss makes of them
parsed_feed(entries) ==
    [entries |-> entries, posts |-> parse_entries(entries, Len(entries))]

\* ----------------------------------------------------------- comment pages
\* _clean_html on the comment bodies used here: entities decoded, tags
\* removed, the text stripped
clean_html(body) ==
    CASE body = "<b>hi</b>" -> "hi"
      [] body = "<p> </p>" -> ""
      [] OTHER -> body

\* _scrape_comments, the loop body: a child of kind t1 whose body is not
\* empty, '[deleted]' or '[removed]' and is not empty once cleaned is appended
scrape_child(comments, child) ==
    IF /\ child.kind = "t1"
       /\ child.body # ""
       /\ child.body \notin {"[deleted]", "[removed]"}
       /\ clean_html(child.body) # ""
    THEN Append(comments, clean_html(child.body))
    ELSE comments

\* _scrape_comments: for child in comments_data[:limit], from the first of
\* the n children on
RECURSIVE scrape_children(_, _)
scrape_children(children, n) ==
    IF n = 0 THEN <<>>
    ELSE scrape_child(scrape_children(children, n - 1), children[n])

\* comments_data[:limit] and the loop over it
scrape_comments(children, lim) ==
    scrape_children(children, Min(lim, Len(children)))

\* the children of a comment page, the limit and the comments returned
parsed_comments(children, lim) ==
    [children |-> children, limit |-> lim,
     comments |-> scrape_comments(children, lim)]

\* ---------------------------------------------------------------- dedupe
\* str.lower() on the summaries used here
Lower(t) ==
    CASE t = "Alpha" -> "alpha"
      [] t = "No viable signal" -> "no viable signal"
      [] OTHER -> t

\* a test that takes no summary for a sentinel
no_viable_never(extraction) == FALSE

\* extraction.signal_summary.lower().startswith("no viable")
no_viable(extraction) ==
    Lower(extraction.signal_summary) = "no viable signal"

\* similarity_ratio: fuzz.token_set_ratio(a.lower(), b.lower()), in percent:
\* 100 for equal token sets, ratio (the library's value for the two distinct
\* texts used here, the same in both argument orders) otherwise
similarity_ratio(a, b, ratio) == IF Lower(a) = Lower(b) THEN 100 ELSE ratio

\* combined_similarity, times four: summary 50%, pain_point 25% and
\* target_user 25%, the last two counted only when both texts are non-empty
combined_similarity(ext1, ext2, ratio) ==
    LET summary_sim == similarity_ratio(ext1.signal_summary, ext2.signal_summary, ratio)
        pain_sim == IF ext1.pain_point # "" /\ ext2.pain_point # ""
                    THEN similarity_ratio(ext1.pain_point, ext2.pain_point, ratio)
                    ELSE 0
        user_sim == IF ext1.target_user # "" /\ ext2.target_user # ""
                    THEN similarity_ratio(ext1.target_user, ext2.target_user, ratio)
                    ELSE 0
    IN 2 * summary_sim + pain_sim + user_sim

\* the inner loop looking at the next idea only
others_next_only(i, n) == {j \in (i + 1)..n : j = i + 1}

\* for j in range(i + 1, len(ideas))
others(i, n) == (i + 1)..n

\* dedupe_ideas, the inner loop from index j on: an idea whose post id is
\* assigned or whose summary is "no viable" is skipped, an idea at least
\* threshold similar to idea i is appended to duplicates and assigned
RECURSIVE check_remaining(_, _, _, _, _, _, _)
check_remaining(ideas, i, j, assigned, duplicates, threshold, ratio) ==
    IF j \notin others(i, Len(ideas))
    THEN [assigned |-> assigned, duplicates |-> duplicates]
    ELSE IF \/ ideas[j].post_id \in assigned
            \/ no_viable(ideas[j].extraction)
            \/ combined_similarity(ideas[i].extraction, ideas[j].extraction, ratio)
                  < 4 * threshold
         THEN check_remaining(ideas, i, j + 1, assigned, duplicates, threshold, ratio)
         ELSE check_remaining(ideas, i, j + 1, assigned \cup {ideas[j].post_id},
                              Append(duplicates, ideas[j].post_id), threshold, ratio)

\* a cluster that drops the duplicates found for it
new_cluster_without_duplicates(idea, duplicates) ==
    [post_id |-> idea.post_id, extraction |-> idea.extraction,
     duplicates |-> <<>>]

\* a cluster (post_id, extraction, duplicates)
new_cluster(idea, duplicates) ==
    [post_id |-> idea.post_id, extraction |-> idea.extraction,
     duplicates |-> duplicates]

\* dedupe_ideas, the outer loop from index i on
RECURSIVE dedupe_from(_, _, _, _, _, _)
dedupe_from(ideas, i, assigned, clusters, threshold, ratio) ==
    IF i > Len(ideas) THEN clusters
    ELSE IF ideas[i].post_id \in assigned
    THEN dedupe_from(ideas, i + 1, assigned, clusters, threshold, ratio)
    ELSE IF no_viable(ideas[i].extraction)
    THEN dedupe_from(ideas, i + 1, assigned \cup {ideas[i].post_id},
                     Append(clusters, new_cluster(ideas[i], <<>>)), threshold, ratio)
    ELSE LET r == check_remaining(ideas, i, i + 1, assigned, <<>>, threshold, ratio)
         IN dedupe_from(ideas, i + 1, r.assigned \cup {ideas[i].post_id},
                        Append(clusters, new_cluster(ideas[i], r.duplicates)),
                        threshold, ratio)

\* dedupe_ideas(ideas, similarity_threshold)
dedupe_ideas(ideas, threshold, ratio) ==
    IF ideas = <<>> THEN <<>> ELSE dedupe_from(ideas, 1, {}, <<>>, threshold, ratio)

\* the canonical (post_id, extraction) pairs of a dedupe_ideas result
canonicals(clusters) ==
    [k \in DOMAIN clusters |->
        [post_id |-> clusters[k].post_id, extraction |-> clusters[k].extraction]]

\* no dedupe_ideas call yet
no_dedupe ==
    [pc |-> "idle", ideas |-> <<>>, threshold |-> 0, ratio |-> 0,
     clusters |-> <<>>, again |-> <<>>]

\* ------------------------------------------------------------------ Init
Init ==
    /\ pc = "idle"
    /\ conn = FALSE
    /\ tbl_posts = [p \in PostIds |-> NoPost]
    /\ tbl_signals = <<>>
    /\ tbl_runs = <<>>
    /\ disk = Commit([p \in PostIds |-> NoPost], <<>>, <<>>)
    /\ fetch_new = TRUE
    /\ process_limit = NoLimit
    /\ max_concurrency = 1
    /\ run_id = NoRun
    /\ posts = <<>>
    /\ tasks = <<>>
    /\ sem = 0
    /\ exc = "none"
    /\ updates = 0
    /\ faults = 0
    /\ calls = 0
    /\ top_signals = top_signals_call(0, FALSE, <<>>)
    /\ fa_pc = "idle"
    /\ client = "none"
    /\ limit = 0
    /\ top_comments = 0
    /\ fetch_max_concurrency = 1
    /\ fetch_sem = 0
    /\ fetch_tasks = <<>>
    /\ all_posts = <<>>
    /\ unprocessed = unprocessed_call(0, 0, <<>>)
    /\ deduped = no_dedupe
    /\ tbl_watchlists = <<>>
    /\ tbl_alert_matches = <<>>
    /\ checked = check_watchlists_call(0, "none", <<>>)
    /\ tbl_clusters = <<>>
    /\ saved_clusters = save_clusters_call(0, <<>>, "none")
    /\ clustered = cluster_call(0, {}, <<>>, "none")
    /\ feed = parsed_feed(<<>>)
    /\ comment_page = parsed_comments(<<>>, 0)


\* ------------------------------------------------- run_pipeline, steps 1-4
\* AsyncStore(settings.db_path); connect(); init_db()
run_pipeline_start(fn, pl, mc) ==
    /\ pc \in {"idle", "done"}
    /\ Len(disk.runs) < MaxRuns
    /\ pc' = "create_run"
    /\ conn' = TRUE
    /\ fetch_new' = fn
    /\ process_limit' = pl
    /\ max_concurrency' = mc
    /\ run_id' = NoRun
    /\ posts' = <<>>
    /\ tasks' = <<>>
    /\ sem' = 0
    /\ exc' = "none"
    /\ updates' = 0
    /\ UNCHANGED <<store_vars, faults, calls>>
    /\ UNCHANGED <<top_signals, fetch_vars, call_vars>>

\* await store.connect() opened the connection and await store.init_db()
\* raises a database error (executescript or its commit): both calls are
\* made before the try statement, so run_pipeline is left with neither the
\* except nor the finally block run
init_db_raise(fn, pl, mc) ==
    /\ pc \in {"idle", "done"}
    /\ Len(disk.runs) < MaxRuns
    /\ faults < MaxFaults
    /\ faults' = faults + 1
    /\ pc' = "done"
    /\ conn' = TRUE
    /\ fetch_new' = fn
    /\ process_limit' = pl
    /\ max_concurrency' = mc
    /\ run_id' = NoRun
    /\ posts' = <<>>
    /\ tasks' = <<>>
    /\ sem' = 0
    /\ exc' = "DatabaseError"
    /\ updates' = 0
    /\ UNCHANGED <<store_vars, calls>>
    /\ UNCHANGED <<top_signals, fetch_vars, call_vars>>

\* run_id = await store.create_run(settings.subreddits)
create_run ==
    /\ pc = "create_run"
    /\ tbl_runs' = Append(tbl_runs, new_run)
    /\ disk' = Commit(tbl_posts, tbl_signals, tbl_runs')
    /\ run_id' = Len(tbl_runs')
    /\ pc' = IF fetch_new THEN "fetch" ELSE "load"
    /\ UNCHANGED <<conn, tbl_posts, tbl_signals, arg_vars, posts, tasks, sem,
                   exc, updates, faults, calls>>
    /\ UNCHANGED <<top_signals, fetch_vars, call_vars>>

\* posts = await fetch_all_subreddits(...) returns a list
fetch_return(ps) ==
    /\ pc = "fetch"
    /\ posts' = ps
    /\ pc' = "upsert"
    /\ UNCHANGED <<conn, store_vars, arg_vars, run_id, tasks, sem, exc,
                   updates, faults, calls>>
    /\ UNCHANGED <<top_signals, fetch_vars, call_vars>>

\* fetch_all_subreddits raises (test_run_pipeline_error)
fetch_raise ==
    /\ pc = "fetch"
    /\ exc' = "FetchError"
    /\ pc' = "except"
    /\ UNCHANGED <<conn, store_vars, arg_vars, run_id, posts, tasks, sem,
                   updates, faults, calls>>
    /\ UNCHANGED <<top_signals, fetch_vars, call_vars>>

\* await store.upsert_posts(posts): every row executed, then conn.commit()
upsert_posts ==
    /\ pc = "upsert"
    /\ tbl_posts' = upsert_rows(tbl_posts, scraped(posts), Len(posts), Now)
    /\ disk' = Commit(tbl_posts', tbl_signals, tbl_runs)
    /\ pc' = "spawn"
    /\ UNCHANGED <<conn, tbl_signals, tbl_runs, arg_vars, run_id, posts,
                   tasks, sem, exc, updates, faults, calls>>
    /\ UNCHANGED <<top_signals, fetch_vars, call_vars>>

\* upsert_posts raises after k rows were executed (k = Len(posts): the
\* commit raises); nothing is rolled back
upsert_posts_fail(k) ==
    /\ pc = "upsert"
    /\ faults < MaxFaults
    /\ k \in 0..Len(posts)
    /\ faults' = faults + 1
    /\ tbl_posts' = upsert_rows(tbl_posts, scraped(posts), k, Now)
    /\ exc' = "UpsertError"
    /\ pc' = "except"
    /\ UNCHANGED <<conn, tbl_signals, tbl_runs, disk, arg_vars, run_id, posts,
                   tasks, sem, updates, calls>>
    /\ UNCHANGED <<top_signals, fetch_vars, call_vars>>

\* limit = process_limit or 1000; posts = await get_unprocessed_posts(limit)
load_unprocessed(ps) ==
    /\ pc = "load"
    /\ ps \in get_unprocessed_posts(tbl_posts,
                IF process_limit = NoLimit \/ process_limit = 0
                THEN DefaultLoadLimit ELSE process_limit)
    /\ posts' = ps
    /\ pc' = "spawn"
    /\ UNCHANGED <<conn, store_vars, arg_vars, run_id, tasks, sem, exc,
                   updates, faults, calls>>
    /\ UNCHANGED <<top_signals, fetch_vars, call_vars>>

\* if process_limit and len(posts) > process_limit: posts = posts[:limit]
apply_process_limit(ps, pl) ==
    IF pl # NoLimit /\ pl # 0 /\ Len(ps) > pl THEN SubSeq(ps, 1, pl) ELSE ps

\* a process_post coroutine and its result triple (post.id, analysis,
\* error); message is str(e) of the caught exception, attempts the number of
\* times the body of analyze_post ran
new_task(post_id) ==
    [post |-> post_id, pc |-> "wait", analysis |-> NoAnalysis, error |-> FALSE,
     message |-> <<>>, attempts |-> 0]

\* sem = Semaphore(max_concurrency); tasks = [process_post(...) for post in posts]
spawn_tasks ==
    /\ pc = "spawn"
    /\ posts' = apply_process_limit(posts, process_limit)
    /\ sem' = max_concurrency
    /\ tasks' = [i \in 1..Len(posts') |-> new_task(posts'[i])]
    /\ pc' = "gather"
    /\ UNCHANGED <<conn, store_vars, arg_vars, run_id, exc, updates, faults,
                   calls>>
    /\ UNCHANGED <<top_signals, fetch_vars, call_vars>>

\* ---------------------------------------------------- process_post tasks
\* a task that returns its triple and keeps the permit
task_return_keeping_permit(i, a, err, msg) ==
    /\ tasks' = [tasks EXCEPT ![i] = [@ EXCEPT !.pc = "done", !.analysis = a,
                                                 !.error = err,
                                                 !.message = msg]]
    /\ sem' = sem

\* the task leaves the `async with sem` block with its result triple
task_return(i, a, err, msg) ==
    /\ tasks' = [tasks EXCEPT ![i] = [@ EXCEPT !.pc = "done", !.analysis = a,
                                                 !.error = err,
                                                 !.message = msg]]
    /\ sem' = sem + 1

\* process_post with the `except Exception` clause left out
process_post_catches_llm_only(kind) ==
    kind = "LLMAnalysisError"

\* process_post: `except LLMAnalysisError` and `except Exception` catch every
\* exception class that analyze_post and save_signal raise
process_post_catches(kind) ==
    kind \in {"LLMAnalysisError", "IntegrityError", "OperationalError"}

\* an exception of class kind is raised inside the try block of
\* process_post: a caught one becomes the triple (post.id, None, str(e)); one
\* that is not caught leaves the task and is raised by gather in run_pipeline
process_post_except(i, kind, msg) ==
    IF process_post_catches(kind)
    THEN /\ task_return(i, NoAnalysis, TRUE, msg)
         /\ UNCHANGED <<pc, exc>>
    ELSE /\ tasks' = [tasks EXCEPT ![i].pc = "raised"]
         /\ sem' = sem + 1
         /\ exc' = kind
         /\ pc' = "except"

\* a semaphore that never blocks
locked_never(value) == FALSE

\* asyncio.Semaphore: acquire() blocks while the value is 0
locked(value) == value = 0

\* async with sem: the permit is taken and analyze_post is called
sem_acquire(i) ==
    /\ pc = "gather"
    /\ i \in DOMAIN tasks
    /\ tasks[i].pc = "wait"
    /\ ~locked(sem)
    /\ sem' = sem - 1
    /\ tasks' = [tasks EXCEPT ![i] = [@ EXCEPT !.pc = "analyze",
                                                 !.attempts = 1]]
    /\ UNCHANGED <<pc, conn, store_vars, arg_vars, run_id, posts, exc,
                   updates, faults, calls>>
    /\ UNCHANGED <<top_signals, fetch_vars, call_vars>>

\* analysis = await analyze_post(llm, post) returns, and save_signal issues
\* its INSERT INTO signals before the task is suspended again (statements
\* run on the connection in the order they are issued); a violation of the
\* unique index raises IntegrityError
analyze_post_ok(i, a) ==
    /\ pc = "gather"
    /\ i \in DOMAIN tasks
    /\ tasks[i].pc = "analyze"
    /\ IF idx_signals_post_run_unique(tbl_signals, tasks[i].post, run_id)
       THEN /\ tbl_signals' = Append(tbl_signals,
                                signal_row(tasks[i].post, run_id, a))
            /\ tasks' = [tasks EXCEPT ![i] = [@ EXCEPT !.pc = "commit",
                                                         !.analysis = a]]
            /\ UNCHANGED <<sem, pc, exc>>
       ELSE /\ process_post_except(i, "IntegrityError", <<"IntegrityError">>)
            /\ tbl_signals' = tbl_signals
    /\ UNCHANGED <<conn, tbl_posts, tbl_runs, disk, arg_vars, run_id, posts,
                   updates, faults, calls>>
    /\ UNCHANGED <<top_signals, fetch_vars, call_vars>>

\* the exceptions chain.ainvoke can raise: a transport timeout, a connection
\* error, an output that does not validate
LLMErrors == {"TimeoutError", "ConnectionError", "ValidationError"}

\* analyze_post: stop=stop_after_attempt(3)
AnalyzeAttempts == 3

\* analyze_post: retry=retry_if_exception_type((TimeoutError, ConnectionError))
analyze_retry(kind, attempt) ==
    /\ kind \in {"TimeoutError", "ConnectionError"}
    /\ attempt < AnalyzeAttempts

\* analyze_post: `except Exception as e` inside the decorated function turns
\* every exception of the body into LLMAnalysisError
analyze_wraps(cause) == "LLMAnalysisError"

\* raise LLMAnalysisError(f"Failed to analyze post {post.id}: {e}") from e
analysis_failed(post_id, cause) == <<"Failed to analyze post", post_id, cause>>

\* chain.ainvoke raises cause inside analyze_post: the function body raises
\* analyze_wraps(cause), and the retry decorator either runs the body again
\* or lets the exception reach process_post
analyze_post_raise(i, cause) ==
    /\ pc = "gather"
    /\ i \in DOMAIN tasks
    /\ tasks[i].pc = "analyze"
    /\ IF analyze_retry(analyze_wraps(cause), tasks[i].attempts)
       THEN /\ tasks' = [tasks EXCEPT ![i].attempts = @ + 1]
            /\ UNCHANGED <<sem, pc, exc>>
       ELSE process_post_except(i, analyze_wraps(cause),
                                analysis_failed(tasks[i].post, cause))
    /\ UNCHANGED <<conn, store_vars, arg_vars, run_id, posts, updates, faults,
                   calls>>
    /\ UNCHANGED <<top_signals, fetch_vars, call_vars>>

\* save_signal: await conn.commit() after the INSERT
save_signal_commit(i) ==
    /\ pc = "gather"
    /\ i \in DOMAIN tasks
    /\ tasks[i].pc = "commit"
    /\ disk' = Commit(tbl_posts, tbl_signals, tbl_runs)
    /\ tasks' = [tasks EXCEPT ![i].pc = "mark"]
    /\ UNCHANGED <<pc, conn, tbl_posts, tbl_signals, tbl_runs, arg_vars,
                   run_id, posts, sem, exc, updates, faults, calls>>
    /\ UNCHANGED <<top_signals, fetch_vars, call_vars>>

\* save_signal -> mark_post_processed: conn.execute(UPDATE posts ...)
save_signal_mark(i) ==
    /\ pc = "gather"
    /\ i \in DOMAIN tasks
    /\ tasks[i].pc = "mark"
    /\ tbl_posts' = mark_post_processed(tbl_posts, tasks[i].post)
    /\ tasks' = [tasks EXCEPT ![i].pc = "commit_mark"]
    /\ UNCHANGED <<pc, conn, tbl_signals, tbl_runs, disk, arg_vars, run_id,
                   posts, sem, exc, updates, faults, calls>>
    /\ UNCHANGED <<top_signals, fetch_vars, call_vars>>

\* mark_post_processed: await conn.commit(); save_signal returns and
\* process_post returns (post.id, analysis, None)
save_signal_done(i) ==
    /\ pc = "gather"
    /\ i \in DOMAIN tasks
    /\ tasks[i].pc = "commit_mark"
    /\ disk' = Commit(tbl_posts, tbl_signals, tbl_runs)
    /\ task_return(i, tasks[i].analysis, FALSE, <<>>)
    /\ UNCHANGED <<pc, conn, tbl_posts, tbl_signals, tbl_runs, arg_vars,
                   run_id, posts, exc, updates, faults, calls>>
    /\ UNCHANGED <<top_signals, fetch_vars, call_vars>>

\* a commit or the UPDATE of save_signal raises a database error:
\* save_signal raises at that point, with no rollback
save_signal_raise(i) ==
    /\ pc = "gather"
    /\ i \in DOMAIN tasks
    /\ tasks[i].pc \in {"commit", "mark", "commit_mark"}
    /\ faults < MaxFaults
    /\ faults' = faults + 1
    /\ process_post_except(i, "OperationalError", <<"OperationalError">>)
    /\ UNCHANGED <<conn, store_vars, arg_vars, run_id, posts, updates, calls>>
    /\ UNCHANGED <<top_signals, fetch_vars, call_vars>>

\* ------------------------------------------------- run_pipeline, steps 6-8
AllDone == \A i \in DOMAIN tasks : tasks[i].pc = "done"

\* a tally that also counts the posts whose analysis returned and whose
\* save_signal raised
analyzed_before_save ==
    Count(tasks, LAMBDA t : \/ t.analysis.state # "none"
                            \/ t.message \in {<<"IntegrityError">>,
                                               <<"OperationalError">>})

\* the tallies computed from the result triples
analyzed == Count(tasks, LAMBDA t : t.analysis.state # "none")
errors == Count(tasks, LAMBDA t : t.error)
extracted == Count(tasks, LAMBDA t : t.analysis.state = "extracted")
not_extractable == Count(tasks, LAMBDA t : t.analysis.state = "not_extractable")
disqualified == Count(tasks, LAMBDA t : t.analysis.state = "disqualified")
qualified == Count(tasks, LAMBDA t : /\ t.analysis.state = "extracted"
                                     /\ t.analysis.score
                                     /\ ~t.analysis.disqualified)

\* results = await asyncio.gather(*tasks) returns
gather_return ==
    /\ pc = "gather"
    /\ AllDone
    /\ pc' = "get_top_signals"
    /\ UNCHANGED <<conn, store_vars, arg_vars, run_id, posts, tasks, sem, exc,
                   updates, faults, calls>>
    /\ UNCHANGED <<top_signals, fetch_vars, call_vars>>

\* top_signals = await store.get_top_signals(limit=10)
get_top_signals ==
    /\ pc = "get_top_signals"
    /\ pc' = "update_run"
    /\ \E rows \in select_top_signals(tbl_signals, tbl_posts, 10, FALSE) :
          top_signals' = top_signals_call(10, FALSE, rows)
    /\ UNCHANGED <<conn, store_vars, arg_vars, run_id, posts, tasks, sem, exc,
                   updates, faults, calls>>
    /\ UNCHANGED <<fetch_vars, call_vars>>

\* await store.update_run(..., status="completed")
update_run_completed ==
    /\ pc = "update_run"
    /\ tbl_runs' = update_run(tbl_runs, run_id, Len(posts), analyzed,
                              extracted + disqualified, qualified, errors,
                              "completed")
    /\ disk' = Commit(tbl_posts, tbl_signals, tbl_runs')
    /\ updates' = updates + 1
    /\ pc' = "get_stats"
    /\ UNCHANGED <<conn, tbl_posts, tbl_signals, arg_vars, run_id, posts,
                   tasks, sem, exc, faults, calls>>
    /\ UNCHANGED <<top_signals, fetch_vars, call_vars>>

\* stats = await store.get_stats(); return PipelineResult(...)
get_stats ==
    /\ pc = "get_stats"
    /\ pc' = "finally"
    /\ UNCHANGED <<conn, store_vars, arg_vars, run_id, posts, tasks, sem, exc,
                   updates, faults, calls>>
    /\ UNCHANGED <<top_signals, fetch_vars, call_vars>>

\* return PipelineResult(run_id=run_id, posts_fetched=len(posts),
\* posts_analyzed=analyzed, signals_saved=analyzed, errors=errors,
\* qualified_signals=qualified, ...)
pipeline_result ==
    [run_id |-> run_id, posts_fetched |-> Len(posts), posts_analyzed |-> analyzed,
     signals_saved |-> analyzed, errors |-> errors, qualified_signals |-> qualified]

\* a read between gather and return (get_top_signals, get_stats) or the
\* load of unprocessed posts raises a database error
read_raise ==
    /\ pc \in {"load", "get_top_signals", "get_stats"}
    /\ faults < MaxFaults
    /\ faults' = faults + 1
    /\ exc' = "DatabaseError"
    /\ pc' = "except"
    /\ UNCHANGED <<conn, store_vars, arg_vars, run_id, posts, tasks, sem,
                   updates, calls>>
    /\ UNCHANGED <<top_signals, fetch_vars, call_vars>>

\* an except block that deletes the signals of the run before it marks the
\* run failed
except_update_run_rollback ==
    /\ pc = "except"
    /\ IF run_id # NoRun
       THEN /\ tbl_runs' = update_run(tbl_runs, run_id, Len(posts), 0, 0, 0, 1,
                                      "failed")
            /\ tbl_signals' = SelectSeq(tbl_signals, LAMBDA r : r.run_id # run_id)
            /\ disk' = Commit(tbl_posts, tbl_signals', tbl_runs')
            /\ updates' = updates + 1
       ELSE UNCHANGED <<tbl_runs, tbl_signals, disk, updates>>
    /\ pc' = "finally"
    /\ UNCHANGED <<conn, tbl_posts, arg_vars, run_id, posts,
                   tasks, sem, exc, faults, calls>>
    /\ UNCHANGED <<top_signals, fetch_vars, call_vars>>

\* except Exception: if run_id: await store.update_run(..., status="failed")
\* then raise
except_update_run ==
    /\ pc = "except"
    /\ IF run_id # NoRun
       THEN /\ tbl_runs' = update_run(tbl_runs, run_id, Len(posts), 0, 0, 0, 1,
                                      "failed")
            /\ disk' = Commit(tbl_posts, tbl_signals, tbl_runs')
            /\ updates' = updates + 1
       ELSE UNCHANGED <<tbl_runs, disk, updates>>
    /\ pc' = "finally"
    /\ UNCHANGED <<conn, tbl_posts, tbl_signals, arg_vars, run_id, posts,
                   tasks, sem, exc, faults, calls>>
    /\ UNCHANGED <<top_signals, fetch_vars, call_vars>>

\* the task running run_pipeline is cancelled while it awaits the fetch or
\* the gather: CancelledError is a BaseException, so `except Exception` is
\* skipped; gather cancels the tasks that are not done, and each of them
\* leaves its `async with sem`
CancelTask(t) == IF t.pc = "done" THEN t ELSE [t EXCEPT !.pc = "cancelled"]

cancel ==
    /\ pc \in {"fetch", "gather"}
    /\ exc' = "CancelledError"
    /\ tasks' = [i \in DOMAIN tasks |-> CancelTask(tasks[i])]
    /\ sem' = IF pc = "gather" THEN max_concurrency ELSE sem
    /\ pc' = "finally"
    /\ UNCHANGED <<conn, store_vars, arg_vars, run_id, posts, updates, faults,
                   calls>>
    /\ UNCHANGED <<top_signals, fetch_vars, call_vars>>

\* finally: await store.close(); what was not committed is discarded
close ==
    /\ pc = "finally"
    /\ conn' = FALSE
    /\ tbl_posts' = disk.posts
    /\ tbl_signals' = disk.signals
    /\ tbl_runs' = disk.runs
    /\ pc' = "done"
    /\ UNCHANGED <<disk, arg_vars, run_id, posts, tasks, sem, exc, updates,
                   faults, calls>>
    /\ UNCHANGED <<top_signals, fetch_vars, call_vars>>

\* await store.update_run(..., status="completed") raises a database error
\* after the UPDATE was executed and before it was committed
update_run_completed_raise ==
    /\ pc = "update_run"
    /\ faults < MaxFaults
    /\ faults' = faults + 1
    /\ tbl_runs' = update_run(tbl_runs, run_id, Len(posts), analyzed,
                              extracted + disqualified, qualified, errors,
                              "completed")
    /\ updates' = updates + 1
    /\ exc' = "DatabaseError"
    /\ pc' = "except"
    /\ UNCHANGED <<conn, tbl_posts, tbl_signals, disk, arg_vars, run_id, posts,
                   tasks, sem, calls>>
    /\ UNCHANGED <<top_signals, fetch_vars, call_vars>>

\* the update_run of the except block raises a database error itself: that
\* error replaces the original exception
except_update_run_raise ==
    /\ pc = "except"
    /\ run_id # NoRun
    /\ faults < MaxFaults
    /\ faults' = faults + 1
    /\ updates' = updates + 1
    /\ exc' = "HandlerError"
    /\ pc' = "finally"
    /\ UNCHANGED <<conn, store_vars, arg_vars, run_id, posts, tasks, sem,
                   calls>>
    /\ UNCHANGED <<top_signals, fetch_vars, call_vars>>

\* ------------------------------------------------------- run_fetch_only
\* run_fetch_only(settings): connect, fetch_all_subreddits, upsert_posts,
\* close; nothing else runs on its connection
run_fetch_only(ps) ==
    /\ pc \in {"idle", "done"}
    /\ calls < MaxFetchOnly
    /\ calls' = calls + 1
    /\ tbl_posts' = upsert_rows(tbl_posts, scraped(ps), Len(ps), Now + 1)
    /\ disk' = Commit(tbl_posts', tbl_signals, tbl_runs)
    /\ UNCHANGED <<pc, conn, tbl_signals, tbl_runs, arg_vars, run_id, posts,
                   tasks, sem, exc, updates, faults>>
    /\ UNCHANGED <<top_signals, fetch_vars, call_vars>>

\* ------------------------------------------------------------------ Next
Next ==
    \/ \E fn \in BOOLEAN, pl \in {NoLimit, 0, 1}, mc \in Concurrencies :
          run_pipeline_start(fn, pl, mc)
    \/ \E fn \in BOOLEAN, pl \in {NoLimit, 0, 1}, mc \in Concurrencies :
          init_db_raise(fn, pl, mc)
    \/ create_run
    \/ \E ps \in SeqsUpTo(PostIds, MaxPosts) : fetch_return(ps)
    \/ fetch_raise
    \/ upsert_posts
    \/ \E k \in 0..MaxPosts : upsert_posts_fail(k)
    \/ \E ps \in SeqsUpTo(PostIds, MaxPosts) : load_unprocessed(ps)
    \/ spawn_tasks
    \/ \E i \in 1..MaxPosts : sem_acquire(i)
    \/ \E i \in 1..MaxPosts, a \in Analyses : analyze_post_ok(i, a)
    \/ \E i \in 1..MaxPosts, cause \in LLMErrors : analyze_post_raise(i, cause)
    \/ \E i \in 1..MaxPosts : save_signal_commit(i)
    \/ \E i \in 1..MaxPosts : save_signal_mark(i)
    \/ \E i \in 1..MaxPosts : save_signal_done(i)
    \/ \E i \in 1..MaxPosts : save_signal_raise(i)
    \/ gather_return
    \/ get_top_signals
    \/ update_run_completed
    \/ update_run_completed_raise
    \/ get_stats
    \/ read_raise
    \/ except_update_run
    \/ except_update_run_raise
    \/ cancel
    \/ close
    \/ \E ps \in SeqsUpTo(PostIds, MaxPosts) : run_fetch_only(ps)

Spec == Init /\ [][Next]_vars

\* ---------------------------------------------- the store used on its own
\* A client (a CLI command, a test) that opens a store of its own and calls
\* its operations one after the other; every call runs to completion.
run_vars == <<pc, conn, arg_vars, run_id, posts, tasks, sem, exc, updates,
              faults, fetch_vars>>

\* the Limit arguments of get_top_signals
TopLimits == {0, 1, 2}

\* store.upsert_posts(ps)
store_upsert_posts(ps) ==
    /\ pc = "idle"
    /\ calls < MaxCalls
    /\ calls' = calls + 1
    /\ tbl_posts' = upsert_rows(tbl_posts, ps, Len(ps), Now + 1)
    /\ disk' = Commit(tbl_posts', tbl_signals, tbl_runs)
    /\ UNCHANGED <<tbl_signals, tbl_runs, run_vars, top_signals, call_vars>>

\* store.create_run(subreddits)
store_create_run ==
    /\ pc = "idle"
    /\ calls < MaxCalls
    /\ Len(tbl_runs) < MaxRuns
    /\ calls' = calls + 1
    /\ tbl_runs' = Append(tbl_runs, new_run)
    /\ disk' = Commit(tbl_posts, tbl_signals, tbl_runs')
    /\ UNCHANGED <<tbl_posts, tbl_signals, run_vars, top_signals, call_vars>>

\* store.save_signal(post, extraction, score, run_id=rid): INSERT, commit,
\* mark_post_processed, commit; a violation of the unique index raises and
\* leaves the tables as they were
store_save_signal(post_id, a, rid) ==
    /\ pc = "idle"
    /\ calls < MaxCalls
    /\ calls' = calls + 1
    /\ IF idx_signals_post_run_unique(tbl_signals, post_id, rid)
       THEN /\ tbl_signals' = Append(tbl_signals, signal_row(post_id, rid, a))
            /\ tbl_posts' = mark_post_processed(tbl_posts, post_id)
            /\ disk' = Commit(tbl_posts', tbl_signals', tbl_runs)
       ELSE UNCHANGED <<tbl_posts, tbl_signals, disk>>
    /\ UNCHANGED <<tbl_runs, run_vars, top_signals, call_vars>>

\* store.get_top_signals(limit=lim, include_disqualified=...)
store_get_top_signals(lim, include_disqualified) ==
    /\ pc = "idle"
    /\ calls < MaxCalls
    /\ calls' = calls + 1
    /\ \E rows \in select_top_signals(tbl_signals, tbl_posts, lim,
                                       include_disqualified) :
          top_signals' = top_signals_call(lim, include_disqualified, rows)
    /\ UNCHANGED <<store_vars, run_vars, call_vars>>

NextStore ==
    \/ \E ids \in SeqsUpTo(PostIds, MaxPosts) : store_upsert_posts(scraped(ids))
    \/ store_create_run
    \/ \E p \in PostIds, a \in StoreAnalyses, rid \in 0..MaxRuns :
          store_save_signal(p, a, rid)
    \/ \E lim \in TopLimits, incl \in BOOLEAN : store_get_top_signals(lim, incl)

SpecStore == Init /\ [][NextStore]_vars

\* ------------------------------------------- the posts table used directly
\* The scores a caller of upsert_posts can hand in (test_fetch_integration
\* upserts a post of score 10) and the limits of get_unprocessed_posts
Scores == {0, 10}
RedditPosts == {RedditPost(id, sc) : id \in PostIds, sc \in Scores}
UnprocessedLimits == {1, 2, 100}

\* store.get_unprocessed_posts(limit=lim)
store_get_unprocessed_posts(lim) ==
    /\ pc = "idle"
    /\ calls < MaxCalls
    /\ calls' = calls + 1
    /\ \E rows \in get_unprocessed_posts(tbl_posts, lim) :
          unprocessed' = unprocessed_call(calls + 1, lim, rows)
    /\ UNCHANGED <<store_vars, run_vars, top_signals, deduped, watch_vars,
                   cluster_vars, feed,
                   comment_page>>

NextPosts ==
    \/ \E ps \in SeqsUpTo(RedditPosts, MaxPosts) : store_upsert_posts(ps)
    \/ \E p \in PostIds, a \in {x \in Analyses : x.state = "not_extractable"} :
          store_save_signal(p, a, NoRun)
    \/ \E lim \in UnprocessedLimits : store_get_unprocessed_posts(lim)

SpecPosts == Init /\ [][NextPosts]_vars

\* ------------------------------------------------- dedupe_ideas on its own
\* PainSignal values: two summaries equal up to case, a third text, one
\* with no pain_point and target_user, and a "no viable" summary
PainSignals ==
    {[signal_summary |-> "alpha", pain_point |-> "pain", target_user |-> "user"],
     [signal_summary |-> "Alpha", pain_point |-> "pain", target_user |-> "user"],
     [signal_summary |-> "beta", pain_point |-> "pain", target_user |-> "user"],
     [signal_summary |-> "alpha", pain_point |-> "", target_user |-> ""],
     [signal_summary |-> "No viable signal", pain_point |-> "", target_user |-> ""]}
IdeaPostIds == {"p1", "p2", "p3"}
Ideas == [post_id : IdeaPostIds, extraction : PainSignals]
MaxIdeas == 3

\* similarity_threshold in percent (0.75 is the default) and the
\* token_set_ratio of two distinct texts
Thresholds == {50, 75}
Ratios == {0, 60, 100}

\* clusters = dedupe_ideas(ideas, threshold)
dedupe_ideas_call(ideas, threshold, ratio) ==
    /\ deduped.pc = "idle"
    /\ deduped' = [pc |-> "once", ideas |-> ideas, threshold |-> threshold,
                   ratio |-> ratio,
                   clusters |-> dedupe_ideas(ideas, threshold, ratio),
                   again |-> <<>>]
    /\ UNCHANGED <<pipe_vars, fetch_vars, unprocessed, watch_vars, cluster_vars,
                   feed, comment_page>>

\* dedupe_ideas([(post_id, extraction) for each cluster], threshold)
dedupe_ideas_again ==
    /\ deduped.pc = "once"
    /\ deduped' = [deduped EXCEPT
                     !.pc = "twice",
                     !.again = dedupe_ideas(canonicals(deduped.clusters),
                                            deduped.threshold, deduped.ratio)]
    /\ UNCHANGED <<pipe_vars, fetch_vars, unprocessed, watch_vars, cluster_vars,
                   feed, comment_page>>

NextDedupe ==
    \/ /\ deduped.pc = "idle"
       /\ \E ideas \in SeqsUpTo(Ideas, MaxIdeas), threshold \in Thresholds,
             ratio \in Ratios : dedupe_ideas_call(ideas, threshold, ratio)
    \/ dedupe_ideas_again

SpecDedupe == Init /\ [][NextDedupe]_vars

\* -------------------------------------------------- watchlists on their own
\* The keywords of a watchlist, and the keywords the text of a signal
\* (signal_summary, pain_point and post title, lower case) contains
Keywords == {"k1", "k2"}
MaxKeywords == 2
MaxWatchlists == 2
signal_text(sig) == IF sig.post_id = "p1" THEN {"k1"} ELSE {"k1", "k2"}

\* store.create_watchlist(name, keywords)
store_create_watchlist(keywords) ==
    /\ pc = "idle"
    /\ calls < MaxCalls
    /\ Len(tbl_watchlists) < MaxWatchlists
    /\ calls' = calls + 1
    /\ tbl_watchlists' = Append(tbl_watchlists, new_watchlist(keywords))
    /\ UNCHANGED <<store_vars, run_vars, top_signals, unprocessed, deduped,
                   tbl_alert_matches, checked, cluster_vars, feed,
                   comment_page>>

\* store.delete_watchlist(watchlist_id): UPDATE watchlists SET is_active = 0
store_delete_watchlist(w) ==
    /\ pc = "idle"
    /\ calls < MaxCalls
    /\ calls' = calls + 1
    /\ tbl_watchlists' = IF w \in DOMAIN tbl_watchlists
                         THEN [tbl_watchlists EXCEPT ![w].is_active = 0]
                         ELSE tbl_watchlists
    /\ UNCHANGED <<store_vars, run_vars, top_signals, unprocessed, deduped,
                   tbl_alert_matches, checked, cluster_vars, feed,
                   comment_page>>

\* store.check_watchlists(): without an active watchlist it returns [];
\* with one, the SELECT of the recent signals raises out of the call before
\* any signal is matched and before alert_matches is read or written
store_check_watchlists ==
    /\ pc = "idle"
    /\ calls < MaxCalls
    /\ calls' = calls + 1
    /\ checked' = IF get_watchlists(tbl_watchlists, TRUE) = {}
                  THEN check_watchlists_call(calls + 1, "returned", <<>>)
                  ELSE check_watchlists_call(calls + 1, recent_signals_query, <<>>)
    /\ UNCHANGED <<store_vars, run_vars, top_signals, unprocessed, deduped,
                   tbl_watchlists, tbl_alert_matches, cluster_vars, feed,
                   comment_page>>

NextWatch ==
    \/ \E ids \in SeqsUpTo(PostIds, MaxPosts) : store_upsert_posts(scraped(ids))
    \/ \E p \in PostIds, a \in Analyses : store_save_signal(p, a, NoRun)
    \/ \E keywords \in SeqsUpTo(Keywords, MaxKeywords) :
          store_create_watchlist(keywords)
    \/ \E w \in 1..MaxWatchlists : store_delete_watchlist(w)
    \/ store_check_watchlists

SpecWatch == Init /\ [][NextWatch]_vars

\* ---------------------------------------------------- clusters on their own
\* Cluster titles, character by character: two that differ after the tenth
\* character and an unrelated one; the signal id lists of a cluster
Titles ==
    {<<"S", "l", "o", "w", " ", "b", "u", "i", "l", "d", "s">>,
     <<"S", "l", "o", "w", " ", "b", "u", "i", "l", "d", "e", "r">>,
     <<"C", "I">>}
SignalIds == {<<>>, <<1>>}
Clusters == [title : Titles, signal_ids : SignalIds]
MaxClusters == 2
Weeks == {"2025-01-06"}

\* store.save_clusters(clusters, week_start)
store_save_clusters(clusters, week_start) ==
    /\ pc = "idle"
    /\ calls < MaxCalls
    /\ calls' = calls + 1
    /\ LET r == insert_clusters(tbl_clusters, tbl_signals, clusters, 1, week_start)
       IN /\ tbl_clusters' = r.clusters
          /\ tbl_signals' = r.signals
          /\ saved_clusters' = save_clusters_call(calls + 1, clusters, r.outcome)
          /\ disk' = IF r.outcome = "returned"
                     THEN Commit(tbl_posts, tbl_signals', tbl_runs)
                     ELSE disk
    /\ UNCHANGED <<tbl_posts, tbl_runs, run_vars, top_signals, unprocessed,
                   deduped, watch_vars, feed, comment_page, clustered>>

NextClusters ==
    \/ \E a \in {x \in Analyses : x.state = "extracted" /\ x.score} :
          store_save_signal("p1", a, NoRun)
    \/ \E clusters \in SeqsUpTo(Clusters, MaxClusters), week_start \in Weeks :
          store_save_clusters(clusters, week_start)

SpecClusters == Init /\ [][NextClusters]_vars

\* ------------------------------------------------ the cluster command
\* What the model can answer to a clustering prompt: a list of clusters
\* whose signal ids are whatever it wrote, or a failure of the call
ClusterResults ==
    [raised : {FALSE}, clusters : SeqsUpTo(Clusters, MaxClusters)]
        \cup {[raised |-> TRUE, clusters |-> <<>>]}

\* cli cluster (not a dry run): items = get_unclustered_pain_points(); return
\* when there is none; clusters = cluster_items(items); return when there
\* is none; save_clusters(clusters, week_start)
cluster_command(result, week_start) ==
    /\ pc = "idle"
    /\ calls < MaxCalls
    /\ calls' = calls + 1
    /\ LET items == get_unclustered_pain_points(tbl_signals, tbl_posts)
           clusters == cluster_items(items, result)
           r == insert_clusters(tbl_clusters, tbl_signals, clusters, 1, week_start)
       IN IF clusters = <<>>
          THEN /\ clustered' = cluster_call(calls + 1, items, <<>>, "returned")
               /\ UNCHANGED <<tbl_clusters, tbl_signals, saved_clusters, disk>>
          ELSE /\ tbl_clusters' = r.clusters
               /\ tbl_signals' = r.signals
               /\ saved_clusters' = save_clusters_call(calls + 1, clusters, r.outcome)
               /\ disk' = IF r.outcome = "returned"
                          THEN Commit(tbl_posts, tbl_signals', tbl_runs)
                          ELSE disk
               /\ clustered' = cluster_call(calls + 1, items, clusters, r.outcome)
    /\ UNCHANGED <<tbl_posts, tbl_runs, run_vars, top_signals, unprocessed,
                   deduped, watch_vars, feed, comment_page>>

NextClusterCommand ==
    \/ store_upsert_posts(scraped(<<"p1">>))
    \/ \E a \in {x \in Analyses : x.score} : store_save_signal("p1", a, NoRun)
    \/ \E result \in ClusterResults, week_start \in Weeks :
          cluster_command(result, week_start)

SpecClusterCommand == Init /\ [][NextClusterCommand]_vars

\* ------------------------------------------------- RSS parsing on its own
\* Links of feed entries: the permalink .../r/test/comments/t3_12345/title/,
\* the link of test_parse_rss_entry (comments/abc123/title/), a post link
\* that ends with its id, a link with two comments segments, and
\* https://google.com
Links ==
    {link(<<<<"r">>, <<"t", "e", "s", "t">>, comments_segment,
            <<"t", "3", "_", "1", "2", "3", "4", "5">>, <<"t", "i", "t", "l", "e">>>>, TRUE),
     link(<<<<"r">>, <<"t", "e", "s", "t">>, comments_segment,
            <<"a", "b", "c", "1", "2", "3">>, <<"t", "i", "t", "l", "e">>>>, TRUE),
     link(<<<<"r">>, <<"t", "e", "s", "t">>, comments_segment,
            <<"a", "b", "c", "1", "2", "3">>>>, FALSE),
     link(<<comments_segment, <<"A", "1">>, comments_segment, <<"b", "2">>>>, TRUE),
     link(<<>>, FALSE)}
Entries == [link : Links]
MaxEntries == 3

\* feed = feedparser.parse(response.text) and the loop over feed.entries
fetch_rss_parse(entries) ==
    /\ feed' = parsed_feed(entries)
    /\ UNCHANGED <<pipe_vars, fetch_vars, unprocessed, deduped, watch_vars,
                   cluster_vars, comment_page>>

NextRss == \E entries \in SeqsUpTo(Entries, MaxEntries) : fetch_rss_parse(entries)

SpecRss == Init /\ [][NextRss]_vars

\* ------------------------------------------------ comment pages on their own
\* The children of data[1]: comments (kind t1) with a body, with a body
\* made of tags, with a deleted or removed body or with none, and a "more"
\* stub
Children ==
    {[kind |-> "t1", body |-> "hello"],
     [kind |-> "t1", body |-> "<b>hi</b>"],
     [kind |-> "t1", body |-> "<p> </p>"],
     [kind |-> "t1", body |-> "[deleted]"],
     [kind |-> "t1", body |-> "[removed]"],
     [kind |-> "t1", body |-> ""],
     [kind |-> "more", body |-> ""]}
MaxChildren == 3
CommentLimits == {0, 1, 2}

\* data = response.json() of a 200 response, and the loop over its children
scrape_comments_parse(children, lim) ==
    /\ comment_page' = parsed_comments(children, lim)
    /\ UNCHANGED <<pipe_vars, fetch_vars, unprocessed, deduped, watch_vars,
                   cluster_vars, feed>>

NextComments ==
    \E children \in SeqsUpTo(Children, MaxChildren), lim \in CommentLimits :
        scrape_comments_parse(children, lim)

SpecComments == Init /\ [][NextComments]_vars

\* ================================================================ fetcher
\* The subreddits passed to fetch_all_subreddits and the entries their RSS
\* listings hold (each entry has a /comments/{id}/ permalink)
Subreddits == <<"s1", "s2">>
Listing == [s \in {"s1", "s2"} |->
              IF s = "s1" THEN <<"a1", "a2">> ELSE <<"b1">>]
Statuses == {"200", "403", "404", "429", "500", "400", "timeout"}
CommentLists == {<<>>, <<"c1">>}
Limits == {0, 1, 2}
TopComments == {0, 1}

\* http_retry: stop=stop_after_attempt(4)
MaxAttempts == 4

\* parse_retry_after: the Retry-After header of a 429 response in seconds,
\* None when the header is absent or cannot be parsed
NoRetryAfter == -1
RetryAfters == {NoRetryAfter, 2, 90}

\* random.uniform(0, jitter) of wait_exponential_jitter(jitter=2): its two
\* extremes
Jitters == {0, 2}

\* http_retry: wait=wait_exponential_jitter(initial=1, max=30, jitter=2), the
\* sleep before the retry that follows failed attempt number attempt
wait_exponential_jitter(attempt, j) == Min(2 ^ (attempt - 1) + j, 30)

\* adaptive_sleep(retry_after, default): the Retry-After value, or default
\* when there is none, capped at 60 seconds
adaptive_sleep(retry_after, default) ==
    Min(IF retry_after # NoRetryAfter THEN retry_after ELSE default, 60)

\* fetch_posts with each except clause, its adaptive sleep and its second
\* call moved out of the `async with sem` block
holds_permit_try_only(at) == at \in {"rss", "c_delay", "c_get"}

\* the positions of fetch_posts that are inside an `async with sem` block:
\* the GET, the REQUEST_DELAY sleep, and the except clause with its
\* adaptive sleep and second call
holds_permit(at) == at \in {"rss", "rss_sleep", "c_delay", "c_get", "c_sleep"}

\* a classification that treats 403 like a 5xx
classify_403_transient(status) ==
    CASE status = "404" -> "empty"
      [] status = "429" -> "RateLimitError"
      [] status = "500" \/ status = "403" -> "TransientHTTPError"
      [] status = "timeout" -> "TransportError"
      [] status = "400" -> "HTTPStatusError"
      [] OTHER -> "ok"

\* What one GET leads to inside _fetch_rss / _scrape_comments: 403 and 404
\* return []; check_response_for_retry raises RateLimitError for 429,
\* TransientHTTPError for 5xx and raise_for_status() raises for any other
\* error status; client.get itself raises on a transport error
classify(status) ==
    CASE status = "403" \/ status = "404" -> "empty"
      [] status = "429" -> "RateLimitError"
      [] status = "500" -> "TransientHTTPError"
      [] status = "timeout" -> "TransportError"
      [] status = "400" -> "HTTPStatusError"
      [] OTHER -> "ok"

\* http_retry: retry=retry_if_exception_type(HTTP_TRANSIENT_EXCEPTIONS +
\* (TransientHTTPError,)); RateLimitError is a TransientHTTPError
http_retry(kind, attempt) ==
    /\ kind \in {"RateLimitError", "TransientHTTPError", "TransportError"}
    /\ attempt < MaxAttempts

\* _parse_rss_entry for each entry of the feed
new_post(id) == [id |-> id, top_comments |-> <<>>]

parse_feed(entries) == [i \in DOMAIN entries |-> new_post(entries[i])]

\* posts[:limit]
Take(s, n) == SubSeq(s, 1, Min(n, Len(s)))

\* a fetch_posts coroutine; attempt counts the attempts of the current
\* http_retry call, gets the GETs issued for the current URL, retry_after is
\* the parsed Retry-After of the last response when it was a 429, slept the
\* seconds slept between that response and the GET now in flight
new_fetch_task(sr) ==
    [subreddit |-> sr, pc |-> "start", attempt |-> 0, second |-> FALSE,
     listing |-> "pending", posts |-> <<>>, k |-> 0, gets |-> 0,
     retry_after |-> NoRetryAfter, slept |-> 0]

\* the request for the current URL is over
request_over(task) == [task EXCEPT !.retry_after = NoRetryAfter, !.slept = 0]

\* tenacity sleeps wait_exponential_jitter and calls the function again,
\* which issues the next GET; ra is the Retry-After of the failed attempt
retry_attempt(task, ra, j) ==
    [task EXCEPT !.attempt = @ + 1, !.gets = @ + 1, !.retry_after = ra,
                 !.slept = wait_exponential_jitter(task.attempt, j)]


\* fetch_all_subreddits: sem = Semaphore(max_concurrency); the client is
\* created; one fetch_posts coroutine per subreddit is handed to gather
fetch_all_subreddits_start(lim, tc, mc) ==
    /\ fa_pc = "idle"
    /\ fa_pc' = "gather"
    /\ client' = "open"
    /\ limit' = lim
    /\ top_comments' = tc
    /\ fetch_max_concurrency' = mc
    /\ fetch_sem' = mc
    /\ fetch_tasks' = [t \in DOMAIN Subreddits |-> new_fetch_task(Subreddits[t])]
    /\ all_posts' = <<>>
    /\ UNCHANGED <<pipe_vars, call_vars>>

\* fetch_posts: async with sem (line 247), then _fetch_rss issues its GET
fetch_posts_acquire(t) ==
    /\ fa_pc = "gather"
    /\ t \in DOMAIN fetch_tasks
    /\ fetch_tasks[t].pc = "start"
    /\ fetch_sem > 0
    /\ fetch_sem' = fetch_sem - 1
    /\ fetch_tasks' = [fetch_tasks EXCEPT ![t] = [@ EXCEPT !.pc = "rss",
                                                           !.attempt = 1,
                                                           !.gets = 1]]
    /\ UNCHANGED <<fa_pc, client, limit, top_comments, fetch_max_concurrency,
                   all_posts, pipe_vars, call_vars>>

\* the listing step of fetch_posts is over with the list ps: the semaphore
\* is released, posts = posts[:limit], and the comment loop starts when
\* top_comments > 0 and there is a post
after_listing(task, how, ps) ==
    LET kept == Take(ps, limit)
    IN [request_over(task) EXCEPT !.listing = how, !.posts = kept,
                    !.pc = IF top_comments > 0 /\ kept # <<>>
                           THEN "c_wait" ELSE "done",
                    !.k = IF top_comments > 0 /\ kept # <<>> THEN 1 ELSE 0]

\* an exception of class kind leaves _fetch_rss after its retries. In the
\* try block RateLimitError leads to the adaptive sleep and a second call,
\* any other Exception to `return []`; an exception of the second call,
\* made inside the except block, leaves fetch_posts
fetch_rss_raised(task, kind) ==
    IF ~task.second /\ kind = "RateLimitError"
    THEN [task EXCEPT !.pc = "rss_sleep"]
    ELSE IF ~task.second
         THEN [request_over(task) EXCEPT !.listing = "error", !.posts = <<>>,
                                         !.pc = "done"]
         ELSE [request_over(task) EXCEPT !.listing = "raised", !.posts = <<>>,
                                         !.pc = "failed"]

\* _fetch_rss: the response to `await client.get(url)`; ra is the parsed
\* Retry-After header of a 429 response, j the jitter of the retry wait
fetch_rss_response(t, status, ra, j) ==
    /\ fa_pc = "gather"
    /\ t \in DOMAIN fetch_tasks
    /\ fetch_tasks[t].pc = "rss"
    /\ LET task == fetch_tasks[t]
           kind == classify(status)
           e_retry_after == IF status = "429" THEN ra ELSE NoRetryAfter
           next == IF kind = "ok"
                   THEN after_listing(task, "ok", parse_feed(Listing[task.subreddit]))
                   ELSE IF kind = "empty"
                   THEN after_listing(task, "empty", <<>>)
                   ELSE IF http_retry(kind, task.attempt)
                   THEN retry_attempt(task, e_retry_after, j)
                   ELSE fetch_rss_raised(
                            [task EXCEPT !.retry_after = e_retry_after], kind)
       IN /\ fetch_tasks' = [fetch_tasks EXCEPT ![t] = next]
          /\ fetch_sem' = IF holds_permit(next.pc)
                          THEN fetch_sem ELSE fetch_sem + 1
    /\ UNCHANGED <<fa_pc, client, limit, top_comments, fetch_max_concurrency,
                   all_posts, pipe_vars, call_vars>>

\* await adaptive_sleep(e.retry_after, default=30.0) is over;
\* posts = await _fetch_rss(...) is called again
fetch_rss_again(t) ==
    /\ fa_pc = "gather"
    /\ t \in DOMAIN fetch_tasks
    /\ fetch_tasks[t].pc = "rss_sleep"
    /\ fetch_tasks' = [fetch_tasks EXCEPT ![t] =
            [@ EXCEPT !.pc = "rss", !.second = TRUE, !.attempt = 1,
                      !.gets = @ + 1,
                      !.slept = adaptive_sleep(fetch_tasks[t].retry_after, 30)]]
    /\ UNCHANGED <<fa_pc, client, limit, top_comments, fetch_max_concurrency,
                   fetch_sem, all_posts, pipe_vars, call_vars>>

\* a comment loop that issues the GET as soon as it has the permit
fetch_posts_acquire_comment_without_delay(t) ==
    /\ fa_pc = "gather"
    /\ t \in DOMAIN fetch_tasks
    /\ fetch_tasks[t].pc = "c_wait"
    /\ fetch_sem > 0
    /\ fetch_sem' = fetch_sem - 1
    /\ fetch_tasks' = [fetch_tasks EXCEPT ![t] = [@ EXCEPT !.pc = "c_get",
                                                           !.second = FALSE,
                                                           !.attempt = 1,
                                                           !.gets = 1]]
    /\ UNCHANGED <<fa_pc, client, limit, top_comments, fetch_max_concurrency,
                   all_posts, pipe_vars, call_vars>>

\* fetch_posts, comment loop: async with sem (line 264)
fetch_posts_acquire_comment(t) ==
    /\ fa_pc = "gather"
    /\ t \in DOMAIN fetch_tasks
    /\ fetch_tasks[t].pc = "c_wait"
    /\ fetch_sem > 0
    /\ fetch_sem' = fetch_sem - 1
    /\ fetch_tasks' = [fetch_tasks EXCEPT ![t].pc = "c_delay"]
    /\ UNCHANGED <<fa_pc, client, limit, top_comments, fetch_max_concurrency,
                   all_posts, pipe_vars, call_vars>>

\* await asyncio.sleep(REQUEST_DELAY) is over; _scrape_comments issues its GET
scrape_comments_call(t) ==
    /\ fa_pc = "gather"
    /\ t \in DOMAIN fetch_tasks
    /\ fetch_tasks[t].pc = "c_delay"
    /\ fetch_tasks' = [fetch_tasks EXCEPT ![t] = [@ EXCEPT !.pc = "c_get",
                                                           !.second = FALSE,
                                                           !.attempt = 1,
                                                           !.gets = 1]]
    /\ UNCHANGED <<fa_pc, client, limit, top_comments, fetch_max_concurrency,
                   fetch_sem, all_posts, pipe_vars, call_vars>>

\* post.top_comments = cs for the post of this iteration; the `async with
\* sem` block is left and the loop goes on to the next post
after_comments(task, cs) ==
    [request_over(task) EXCEPT !.posts[task.k].top_comments = cs,
                 !.pc = IF task.k < Len(task.posts) THEN "c_wait" ELSE "done",
                 !.k = IF task.k < Len(task.posts) THEN task.k + 1 ELSE task.k]

\* an exception of class kind leaves _scrape_comments after its retries. In
\* the try block RateLimitError leads to the adaptive sleep and a second
\* call, any other Exception to post.top_comments = []; an exception of the
\* second call, made inside the except block, leaves fetch_posts
scrape_comments_raised(task, kind) ==
    IF ~task.second /\ kind = "RateLimitError"
    THEN [task EXCEPT !.pc = "c_sleep"]
    ELSE IF ~task.second
         THEN after_comments(task, <<>>)
         ELSE [request_over(task) EXCEPT !.pc = "failed"]

\* _scrape_comments: the response to `await client.get(json_url)`; cs are
\* the comments a 200 response yields ([] when the JSON cannot be parsed),
\* ra the parsed Retry-After of a 429 response, j the jitter of the retry wait
scrape_comments_response(t, status, cs, ra, j) ==
    /\ fa_pc = "gather"
    /\ t \in DOMAIN fetch_tasks
    /\ fetch_tasks[t].pc = "c_get"
    /\ LET task == fetch_tasks[t]
           kind == classify(status)
           e_retry_after == IF status = "429" THEN ra ELSE NoRetryAfter
           next == IF kind = "ok"
                   THEN after_comments(task, Take(cs, top_comments))
                   ELSE IF kind = "empty"
                   THEN after_comments(task, <<>>)
                   ELSE IF http_retry(kind, task.attempt)
                   THEN retry_attempt(task, e_retry_after, j)
                   ELSE scrape_comments_raised(
                            [task EXCEPT !.retry_after = e_retry_after], kind)
       IN /\ fetch_tasks' = [fetch_tasks EXCEPT ![t] = next]
          /\ fetch_sem' = IF holds_permit(next.pc)
                          THEN fetch_sem ELSE fetch_sem + 1
    /\ UNCHANGED <<fa_pc, client, limit, top_comments, fetch_max_concurrency,
                   all_posts, pipe_vars, call_vars>>

\* await adaptive_sleep(e.retry_after, default=30.0) is over;
\* post.top_comments = await _scrape_comments(...) is called again
scrape_comments_again(t) ==
    /\ fa_pc = "gather"
    /\ t \in DOMAIN fetch_tasks
    /\ fetch_tasks[t].pc = "c_sleep"
    /\ fetch_tasks' = [fetch_tasks EXCEPT ![t] =
            [@ EXCEPT !.pc = "c_get", !.second = TRUE, !.attempt = 1,
                      !.gets = @ + 1,
                      !.slept = adaptive_sleep(fetch_tasks[t].retry_after, 30)]]
    /\ UNCHANGED <<fa_pc, client, limit, top_comments, fetch_max_concurrency,
                   fetch_sem, all_posts, pipe_vars, call_vars>>

\* gather called without return_exceptions
return_exceptions_off == FALSE

\* results = await asyncio.gather(*tasks, return_exceptions=True)
return_exceptions == TRUE

\* the results appended last task first
RECURSIVE collect_reversed(_, _)
collect_reversed(ts, n) ==
    IF n = 0 THEN <<>>
    ELSE (IF ts[n].pc = "failed" THEN <<>> ELSE ts[n].posts)
             \o collect_reversed(ts, n - 1)

\* for i, result in enumerate(results): an Exception is logged, a list is
\* appended with all_posts.extend(result)
RECURSIVE collect(_, _)
collect(ts, n) ==
    IF n = 0 THEN <<>>
    ELSE collect(ts, n - 1) \o (IF ts[n].pc = "failed" THEN <<>> ELSE ts[n].posts)

\* gather is over: the client is closed; with return_exceptions the
\* exception of a fetch_posts task is one of the results, without it gather
\* raises it out of fetch_all_subreddits
fetch_all_subreddits_finish ==
    /\ fa_pc = "gather"
    /\ \A t \in DOMAIN fetch_tasks : fetch_tasks[t].pc \in {"done", "failed"}
    /\ client' = "closed"
    /\ IF return_exceptions \/ \A t \in DOMAIN fetch_tasks : fetch_tasks[t].pc = "done"
       THEN /\ all_posts' = collect(fetch_tasks, Len(fetch_tasks))
            /\ fa_pc' = "done"
       ELSE /\ all_posts' = all_posts
            /\ fa_pc' = "raised"
    /\ UNCHANGED <<limit, top_comments, fetch_max_concurrency, fetch_sem,
                   fetch_tasks, pipe_vars, call_vars>>

\* what a response of a given status carries: a Retry-After header is
\* read from a 429 only, a retry wait follows a retryable failure only, and
\* a comment list is read from a 200 only
RetryAftersOf(status) ==
    IF status = "429" THEN RetryAfters ELSE {NoRetryAfter}

JittersOf(status) ==
    IF classify(status) \in {"RateLimitError", "TransientHTTPError", "TransportError"}
    THEN Jitters ELSE {0}

CommentListsOf(status) ==
    IF status = "200" THEN CommentLists ELSE {<<>>}

NextFetch ==
    \/ \E lim \in Limits, tc \in TopComments, mc \in Concurrencies :
          fetch_all_subreddits_start(lim, tc, mc)
    \/ \E t \in DOMAIN Subreddits : fetch_posts_acquire(t)
    \/ \E t \in DOMAIN Subreddits, status \in Statuses :
          \E ra \in RetryAftersOf(status), j \in JittersOf(status) :
             fetch_rss_response(t, status, ra, j)
    \/ \E t \in DOMAIN Subreddits : fetch_rss_again(t)
    \/ \E t \in DOMAIN Subreddits : fetch_posts_acquire_comment(t)
    \/ \E t \in DOMAIN Subreddits : scrape_comments_call(t)
    \/ \E t \in DOMAIN Subreddits, status \in Statuses :
          \E cs \in CommentListsOf(status), ra \in RetryAftersOf(status),
             j \in JittersOf(status) :
                scrape_comments_response(t, status, cs, ra, j)
    \/ \E t \in DOMAIN Subreddits : scrape_comments_again(t)
    \/ fetch_all_subreddits_finish

SpecFetch == Init /\ [][NextFetch]_vars

\* ------------------------------------------------- the two fan-outs, fair
\* return all_posts: the call of fetch_all_subreddits is over and its
\* locals (the semaphore, the client, the coroutines, the result list) are
\* gone
fetch_all_subreddits_return ==
    /\ fa_pc = "done"
    /\ fa_pc' = "idle"
    /\ client' = "none"
    /\ limit' = 0
    /\ top_comments' = 0
    /\ fetch_max_concurrency' = 1
    /\ fetch_sem' = 0
    /\ fetch_tasks' = <<>>
    /\ all_posts' = <<>>
    /\ UNCHANGED <<pipe_vars, call_vars>>

\* fetch_all_subreddits, called any number of times before the pipeline run
\* starts, with every request answered by some status
NextFetchAll ==
    \/ /\ pc = "idle"
       /\ \E lim \in Limits, tc \in TopComments, mc \in Concurrencies :
             fetch_all_subreddits_start(lim, tc, mc)
    \/ /\ pc = "idle"
       /\ \E t \in DOMAIN Subreddits : fetch_posts_acquire(t)
    \/ /\ pc = "idle"
       /\ \E t \in DOMAIN Subreddits, status \in Statuses :
             fetch_rss_response(t, status, NoRetryAfter, 0)
    \/ /\ pc = "idle"
       /\ \E t \in DOMAIN Subreddits : fetch_rss_again(t)
    \/ /\ pc = "idle"
       /\ \E t \in DOMAIN Subreddits : fetch_posts_acquire_comment(t)
    \/ /\ pc = "idle"
       /\ \E t \in DOMAIN Subreddits : scrape_comments_call(t)
    \/ /\ pc = "idle"
       /\ \E t \in DOMAIN Subreddits, status \in Statuses :
             \E cs \in CommentListsOf(status) :
                scrape_comments_response(t, status, cs, NoRetryAfter, 0)
    \/ /\ pc = "idle"
       /\ \E t \in DOMAIN Subreddits : scrape_comments_again(t)
    \/ /\ pc = "idle"
       /\ fetch_all_subreddits_finish
    \/ /\ pc = "idle"
       /\ fetch_all_subreddits_return

\* one run of run_pipeline that is not cancelled, started when no
\* fetch_all_subreddits call is under way, with every LLM call answered by
\* an analysis or an error, and at most MaxFaults database errors in
\* save_signal
NextRun ==
    \/ /\ fa_pc = "idle"
       /\ \E fn \in BOOLEAN, mc \in Concurrencies :
             run_pipeline_start(fn, NoLimit, mc)
    \/ /\ fa_pc = "idle"
       /\ create_run
    \/ /\ fa_pc = "idle"
       /\ \E ps \in SeqsUpTo(PostIds, MaxPosts) : fetch_return(ps)
    \/ /\ fa_pc = "idle"
       /\ fetch_raise
    \/ /\ fa_pc = "idle"
       /\ upsert_posts
    \/ /\ fa_pc = "idle"
       /\ \E ps \in SeqsUpTo(PostIds, MaxPosts) : load_unprocessed(ps)
    \/ /\ fa_pc = "idle"
       /\ spawn_tasks
    \/ /\ fa_pc = "idle"
       /\ \E i \in 1..MaxPosts : sem_acquire(i)
    \/ /\ fa_pc = "idle"
       /\ \E i \in 1..MaxPosts, a \in Analyses : analyze_post_ok(i, a)
    \/ /\ fa_pc = "idle"
       /\ \E i \in 1..MaxPosts, cause \in LLMErrors : analyze_post_raise(i, cause)
    \/ /\ fa_pc = "idle"
       /\ \E i \in 1..MaxPosts : save_signal_commit(i)
    \/ /\ fa_pc = "idle"
       /\ \E i \in 1..MaxPosts : save_signal_mark(i)
    \/ /\ fa_pc = "idle"
       /\ \E i \in 1..MaxPosts : save_signal_done(i)
    \/ /\ fa_pc = "idle"
       /\ \E i \in 1..MaxPosts : save_signal_raise(i)
    \/ /\ fa_pc = "idle"
       /\ gather_return
    \/ /\ fa_pc = "idle"
       /\ get_top_signals
    \/ /\ fa_pc = "idle"
       /\ update_run_completed
    \/ /\ fa_pc = "idle"
       /\ get_stats
    \/ /\ fa_pc = "idle"
       /\ except_update_run
    \/ /\ fa_pc = "idle"
       /\ close

\* The event loop runs a step whenever one is possible: a coroutine that
\* can go on does go on, a request or LLM call that was issued is answered
NextFanOut == NextFetchAll \/ NextRun

SpecFanOut == Init /\ [][NextFanOut]_vars /\ WF_vars(NextFanOut)

\* =================================================================== claims
Returned == pc = "done" /\ exc = "none"
Raised == pc = "done" /\ exc # "none"

\* C1: every create_run is followed by exactly one update_run, and the run
\* row ends in a terminal status: when run_pipeline has ended with a run
\* row created, it has called update_run exactly once and the committed row
\* is 'completed' or 'failed'.
C1_ExactlyOneTerminalUpdate ==
    (pc = "done" /\ run_id # NoRun) =>
        /\ updates = 1
        /\ disk.runs[run_id].status \in {"completed", "failed"}

\* C2: when run_pipeline raises after its run row was created, the
\* committed run row has status 'failed' and errors >= 1, and the exception
\* that reaches the caller is the original one.
C2_RaisedRunIsFailed ==
    (Raised /\ run_id # NoRun) =>
        /\ disk.runs[run_id].status = "failed"
        /\ disk.runs[run_id].errors >= 1
        /\ exc # "HandlerError"

\* C3: when run_pipeline was cancelled, no task is left running and the
\* committed run row has status 'failed'.
C3_CancelledRunIsFailed ==
    (pc = "done" /\ exc = "CancelledError") =>
        /\ \A i \in DOMAIN tasks : tasks[i].pc \in {"done", "cancelled"}
        /\ disk.runs[run_id].status = "failed"

\* C4: a committed processed flag never goes from 1 back to 0, whatever
\* store operation is applied (in particular upsert_posts on an existing id).
C4_ProcessedMonotonic ==
    [][\A p \in PostIds :
          disk.posts[p].processed = 1 => disk'.posts[p].processed = 1]_vars

\* C5: while the run is in progress, no committed state contains a signal
\* row written by a save_signal call of the run whose post is still
\* unprocessed.
C5_SignalAndFlagTogether ==
    \A i \in DOMAIN disk.signals :
        (conn /\ run_id # NoRun /\ disk.signals[i].run_id = run_id) =>
            disk.posts[disk.signals[i].post_id].processed = 1

\* C6: no two committed signal rows share post_id and run_id, a missing
\* run id included.
C6_OneSignalPerPostRun ==
    \A i, j \in DOMAIN disk.signals :
        i # j => ~(/\ disk.signals[i].post_id = disk.signals[j].post_id
                   /\ disk.signals[i].run_id = disk.signals[j].run_id)

\* C8: after upsert_posts raised part-way, no row it wrote is committed,
\* also not by the commit of a later operation on the same connection.
C8_FailedUpsertCommitsNothing ==
    (conn /\ exc = "UpsertError") =>
        \A p \in PostIds :
            ~(disk.posts[p].present /\ disk.posts[p].fetched_at = Now)

\* the exception classes raised inside the try block of process_post
TaskExceptions == {"LLMAnalysisError", "IntegrityError", "OperationalError"}

\* the committed signals table holds a row of post_id for run rid
SignalCommitted(post_id, rid) ==
    \E k \in DOMAIN disk.signals :
        disk.signals[k].post_id = post_id /\ disk.signals[k].run_id = rid

\* C7: a failure inside one post's task is recorded as the error of that
\* task's triple and counted in the run's errors; it never reaches the
\* except block of run_pipeline; gather returns a triple for every post, the
\* signal of every task that returned an analysis is committed, and a run
\* that returns has status 'completed'.
C7_TaskFailureIsolated ==
    /\ exc \notin TaskExceptions
    /\ \A i \in DOMAIN tasks :
          tasks[i].pc = "done" =>
              (tasks[i].error <=> tasks[i].analysis.state = "none")
    /\ (pc \in {"get_top_signals", "update_run", "get_stats"} \/ Returned) =>
          /\ AllDone
          /\ \A i \in DOMAIN tasks :
                ~tasks[i].error => SignalCommitted(tasks[i].post, run_id)
    /\ Returned =>
          /\ disk.runs[run_id].status = "completed"
          /\ disk.runs[run_id].errors = errors
          /\ disk.runs[run_id].posts_analyzed = Len(tasks) - errors

\* a run that returned 'completed' although one task failed in analyze_post
\* or save_signal, with the signal of another post saved
C7_Witness ==
    /\ Returned
    /\ disk.runs[run_id].status = "completed"
    /\ \E i, j \in DOMAIN tasks :
          /\ tasks[i].error
          /\ ~tasks[j].error
          /\ tasks[i].post # tasks[j].post
          /\ SignalCommitted(tasks[j].post, run_id)
          /\ ~SignalCommitted(tasks[i].post, run_id)

PostIdsOf(ps) == {ps[i].id : i \in DOMAIN ps}

\* C9: a failure of the comment scrape of one post, the failure of the
\* second call made after the 429 sleep included, drops no post: every post
\* a subreddit's listing step kept is in the returned list.
C9_CommentFailureKeepsPosts ==
    fa_pc = "done" =>
        \A t \in DOMAIN fetch_tasks :
            fetch_tasks[t].listing = "ok" =>
                PostIdsOf(Take(parse_feed(Listing[fetch_tasks[t].subreddit]), limit))
                    \subseteq PostIdsOf(all_posts)

\* the listing step of fetch_posts produced no post
ListingFailed(task) == task.listing \in {"empty", "error", "raised"}

\* C10: fetch_all_subreddits never raises because a subreddit failed; a
\* subreddit whose listing fetch failed (403, 404, an error after the
\* retries) contributes no post, and every post of a subreddit whose
\* fetch_posts returned is in the result.
C10_ListingFailureIsolated ==
    /\ fa_pc # "raised"
    /\ fa_pc = "done" =>
          \A t \in DOMAIN fetch_tasks :
              /\ ListingFailed(fetch_tasks[t]) =>
                    \A i \in DOMAIN Listing[fetch_tasks[t].subreddit] :
                        Listing[fetch_tasks[t].subreddit][i] \notin PostIdsOf(all_posts)
              /\ fetch_tasks[t].pc = "done" =>
                    PostIdsOf(fetch_tasks[t].posts) \subseteq PostIdsOf(all_posts)

\* fetch_all_subreddits returned the posts of one subreddit although the
\* listing fetch of the other one raised out of fetch_posts
C10_Witness ==
    /\ fa_pc = "done"
    /\ \E t, u \in DOMAIN fetch_tasks :
          /\ fetch_tasks[t].listing = "raised"
          /\ fetch_tasks[u].listing = "ok"
          /\ fetch_tasks[u].posts # <<>>
          /\ PostIdsOf(fetch_tasks[u].posts) \subseteq PostIdsOf(all_posts)

\* C11: for a single listing or comment URL the fetcher issues at most 4
\* GETs, whatever sequence of 429, 5xx and transport errors it receives.
C11_AtMostFourGets ==
    \A t \in DOMAIN fetch_tasks : fetch_tasks[t].gets <= MaxAttempts

\* C12: a GET that follows a 429 response carrying a parsed Retry-After value
\* was preceded by a sleep of min(Retry-After, 60) seconds.
C12_SleepsRetryAfter ==
    \A t \in DOMAIN fetch_tasks :
        (/\ fetch_tasks[t].pc \in {"rss", "c_get"}
         /\ fetch_tasks[t].retry_after # NoRetryAfter) =>
            fetch_tasks[t].slept = Min(fetch_tasks[t].retry_after, 60)

\* the fetch_posts coroutines with a GET in flight
InFlight == {t \in DOMAIN fetch_tasks : fetch_tasks[t].pc \in {"rss", "c_get"}}

\* C15: every RSS and per-post JSON request, the one repeated after a 429
\* sleep included, is in flight while its coroutine holds a permit of the
\* fetcher semaphore: the requests in flight never outnumber the permits
\* taken, and so never exceed max_concurrency.
C15_RequestsHoldPermit ==
    fa_pc = "gather" =>
        /\ fetch_sem >= 0
        /\ Cardinality(InFlight) <= fetch_max_concurrency - fetch_sem
        /\ Cardinality(InFlight) <= fetch_max_concurrency

\* with max_concurrency = 1, the request repeated after a 429 sleep is in
\* flight while the other coroutine waits for the semaphore
C15_Witness ==
    /\ fa_pc = "gather"
    /\ fetch_max_concurrency = 1
    /\ fetch_sem = 0
    /\ \E t, u \in DOMAIN fetch_tasks :
          /\ fetch_tasks[t].pc \in {"rss", "c_get"}
          /\ fetch_tasks[t].second
          /\ fetch_tasks[u].pc \in {"start", "c_wait"}

\* C13: analyze_post gives up on a transport timeout or connection error
\* only after 3 attempts of the LLM call, never makes more than 3, and
\* surfaces any other error after one attempt as an analysis error naming
\* the post id.
C13_ThreeAttemptsOnTransportErrors ==
    \A i \in DOMAIN tasks :
        /\ tasks[i].attempts <= 3
        /\ (tasks[i].pc = "done" /\ tasks[i].message # <<>>
               /\ tasks[i].message[1] = "Failed to analyze post") =>
              /\ tasks[i].message[2] = tasks[i].post
              /\ IF tasks[i].message[3] \in {"TimeoutError", "ConnectionError"}
                 THEN tasks[i].attempts = 3
                 ELSE tasks[i].attempts = 1

\* the post tasks inside the `async with sem` block of process_post
InSection ==
    {i \in DOMAIN tasks : tasks[i].pc \in {"analyze", "commit", "mark", "commit_mark"}}

\* C14: while run_pipeline awaits gather, the post tasks inside the
\* analyze-and-save section never outnumber max_concurrency: each of them
\* holds one permit of the semaphore.
C14_AtMostMaxConcurrencyActive ==
    pc = "gather" =>
        /\ sem >= 0
        /\ Cardinality(InSection) = max_concurrency - sem
        /\ Cardinality(InSection) <= max_concurrency

\* max_concurrency = 1: one task is inside the section and the other one
\* waits for the semaphore
C14_Witness ==
    /\ pc = "gather"
    /\ max_concurrency = 1
    /\ Cardinality(InSection) = 1
    /\ \E i \in DOMAIN tasks : tasks[i].pc = "wait"

\* C16: every persisted signal whose extraction_state is not 'extracted'
\* has total_score = 0 and all five dimension scores 0.
C16_UnextractedScoresZero ==
    \A i \in DOMAIN disk.signals :
        disk.signals[i].extraction_state # "extracted" =>
            /\ disk.signals[i].total_score = 0
            /\ disk.signals[i].practicality = 0
            /\ disk.signals[i].profitability = 0
            /\ disk.signals[i].distribution = 0
            /\ disk.signals[i].competition = 0
            /\ disk.signals[i].moat = 0

\* C17: every persisted signal's post_id is the id of an existing post row
\* and its run_id, when it has one, is the id of an existing run row.
C17_SignalReferencesExist ==
    \A i \in DOMAIN disk.signals :
        /\ disk.posts[disk.signals[i].post_id].present
        /\ disk.signals[i].run_id # NoRun =>
              disk.signals[i].run_id \in DOMAIN disk.runs

\* a signal that get_top_signals can return: its post row exists
Joined(i) == tbl_posts[tbl_signals[i].post_id].present

\* C18: a get_top_signals call returns at most limit rows of the signals
\* table, in descending total_score order, none of them disqualified unless
\* include_disqualified is set; a signal the call admits (any signal with
\* include_disqualified, the signals that are not disqualified without it)
\* is left out only when limit rows with scores at least as high are returned.
C18_TopSignalsOrderedAndFiltered ==
    [][top_signals' # top_signals =>
         LET rows == top_signals'.rows
             lim == top_signals'.limit
             incl == top_signals'.include_disqualified
         IN /\ Len(rows) <= lim
            /\ \A k \in DOMAIN rows :
                  \E i \in DOMAIN tbl_signals : Joined(i) /\ tbl_signals[i] = rows[k]
            /\ ~incl => \A k \in DOMAIN rows : rows[k].disqualified = 0
            /\ \A a, b \in DOMAIN rows :
                  a < b => rows[a].total_score >= rows[b].total_score
            /\ \A i \in DOMAIN tbl_signals :
                  (Joined(i) /\ (incl \/ tbl_signals[i].disqualified = 0)) =>
                      \/ \E k \in DOMAIN rows : rows[k] = tbl_signals[i]
                      \/ /\ Len(rows) = lim
                         /\ \A k \in DOMAIN rows :
                               tbl_signals[i].total_score <= rows[k].total_score
    ]_vars

\* a call without include_disqualified returned one signal and left out a
\* disqualified one although limit was 2; a call with include_disqualified
\* would have returned both
C18_Witness ==
    /\ top_signals.limit = 2
    /\ ~top_signals.include_disqualified
    /\ Len(top_signals.rows) = 1
    /\ Cardinality({i \in DOMAIN tbl_signals : Joined(i)}) = 2
    /\ \E i \in DOMAIN tbl_signals :
          /\ Joined(i)
          /\ tbl_signals[i].disqualified = 1
          /\ tbl_signals[i].total_score > 0

\* C19: the qualified_signals counter of a completed run is the number of
\* posts whose analysis is extracted and not disqualified; not_extractable
\* analyses count in posts_analyzed only, and qualified_signals never
\* exceeds posts_analyzed.
C19_QualifiedIsExtractedNotDisqualified ==
    (Returned /\ run_id # NoRun) =>
        /\ disk.runs[run_id].qualified_signals =
              Cardinality({i \in DOMAIN tasks :
                              /\ tasks[i].analysis.state = "extracted"
                              /\ ~tasks[i].analysis.disqualified})
        /\ disk.runs[run_id].posts_analyzed =
              Cardinality({i \in DOMAIN tasks : tasks[i].analysis.state # "none"})
        /\ disk.runs[run_id].qualified_signals <= disk.runs[run_id].posts_analyzed

\* C20: a run that raised from the fetch, the upsert, the load, the
\* fan-out, the top-signal read or the completed update has a Run row with
\* status 'failed', errors = 1 and all four counters zero.
C20_FailedRunCountersZero ==
    (Raised /\ run_id # NoRun
        /\ exc \in {"FetchError", "UpsertError", "DatabaseError"}) =>
        /\ disk.runs[run_id].status = "failed"
        /\ disk.runs[run_id].errors = 1
        /\ disk.runs[run_id].posts_fetched = 0
        /\ disk.runs[run_id].posts_analyzed = 0
        /\ disk.runs[run_id].signals_saved = 0
        /\ disk.runs[run_id].qualified_signals = 0

\* the ids of the posts of a list, in list order
IdsOf(ps) == [i \in DOMAIN ps |-> ps[i].id]

\* the ids a subreddit contributes: the first limit entries of its listing
\* when its fetch_posts coroutine returned the listing's posts, none otherwise
Contribution(task) ==
    IF task.pc = "done" /\ task.listing = "ok"
    THEN SubSeq(Listing[task.subreddit], 1,
                IF limit < Len(Listing[task.subreddit])
                THEN limit ELSE Len(Listing[task.subreddit]))
    ELSE <<>>

C22_UnprocessedByScore ==
    [][unprocessed' # unprocessed =>
         LET rows == unprocessed'.rows
             lim == unprocessed'.limit
         IN /\ Len(rows) <= lim
            /\ \A k \in DOMAIN rows :
                  tbl_posts[rows[k]].present /\ tbl_posts[rows[k]].processed = 0
            /\ \A a, b \in DOMAIN rows :
                  a < b => tbl_posts[rows[a]].score >= tbl_posts[rows[b]].score
            /\ lim >= Cardinality({p \in PostIds : tbl_posts[p].present}) =>
                  \A p \in PostIds :
                      (tbl_posts[p].present /\ tbl_posts[p].processed = 0) =>
                          \E k \in DOMAIN rows : rows[k] = p
    ]_vars

\* two posts upserted in one call, the one of the higher score returned
\* first although it was second in the list
C22_Witness ==
    /\ unprocessed.limit = 100
    /\ unprocessed.rows = <<"p2", "p1">>
    /\ tbl_posts["p1"].score = 0
    /\ tbl_posts["p2"].score = 10
    /\ tbl_posts["p1"].fetched_at = tbl_posts["p2"].fetched_at

\* C23: dedupe_ideas applied to the canonical (post_id, extraction) pairs of
\* its own output, with the same threshold and the same (symmetric)
\* similarity, yields the same canonicals, each with an empty duplicate list.
C23_DedupeIdempotent ==
    deduped.pc = "twice" =>
        /\ canonicals(deduped.again) = canonicals(deduped.clusters)
        /\ \A k \in DOMAIN deduped.again : deduped.again[k].duplicates = <<>>

\* the first call folded the third idea into the first one; the second call
\* compared the two canonicals that were left, found them dissimilar and
\* kept both
C23_Witness ==
    /\ deduped.pc = "twice"
    /\ Len(deduped.ideas) = 3
    /\ Len(deduped.clusters) = 2
    /\ deduped.clusters[1].duplicates # <<>>
    /\ ~no_viable(deduped.clusters[2].extraction)
    /\ deduped.ideas[3].post_id = deduped.clusters[1].duplicates[1]
    /\ deduped.ideas[2].post_id = deduped.clusters[2].post_id
    /\ Len(deduped.again) = 2

\* the rows of alert_matches for the pair (watchlist w, signal i)
MatchRows(tbl, w, i) ==
    {m \in DOMAIN tbl : tbl[m].watchlist_id = w /\ tbl[m].signal_id = i}

\* signal i is one the scan selects (joined with its post, not
\* disqualified) and its text contains a keyword of watchlist w
Matching(w, i) ==
    /\ tbl_watchlists[w].is_active = 1
    /\ Joined(i)
    /\ tbl_signals[i].disqualified = 0
    /\ \E k \in DOMAIN tbl_watchlists[w].keywords :
          tbl_watchlists[w].keywords[k] \in signal_text(tbl_signals[i])

\* C24: watchlist matches are persisted idempotently: alert_matches never
\* holds more than one row for a (watchlist, signal) pair, and a
\* check_watchlists scan leaves exactly one row, with the first matching
\* keyword, for every pair of an active watchlist and a signal it matches.
C24_MatchesPersistedOnce ==
    [][checked' # checked =>
         \A w \in DOMAIN tbl_watchlists, i \in DOMAIN tbl_signals :
             /\ Cardinality(MatchRows(tbl_alert_matches', w, i)) <= 1
             /\ Matching(w, i) =>
                   \E m \in MatchRows(tbl_alert_matches', w, i) :
                       LET kws == tbl_watchlists[w].keywords
                       IN \E k \in DOMAIN kws :
                             /\ tbl_alert_matches'[m].keyword_matched = kws[k]
                             /\ kws[k] \in signal_text(tbl_signals[i])
                             /\ \A l \in 1..(k - 1) :
                                   kws[l] \notin signal_text(tbl_signals[i])
    ]_vars

\* C25: save_clusters never fails because of a cluster id collision: the
\* call returns and every cluster handed in is in the table afterwards, the
\* rows of the table under pairwise distinct ids, also when two clusters of
\* the same week share their first ten title characters and their number
\* of signal ids.
C25_NoCollisionFailure ==
    [][saved_clusters' # saved_clusters =>
         /\ saved_clusters'.outcome = "returned"
         /\ Len(tbl_clusters') = Len(tbl_clusters) + Len(saved_clusters'.clusters)
         /\ \A a, b \in DOMAIN tbl_clusters' :
               a # b => tbl_clusters'[a].id # tbl_clusters'[b].id
    ]_vars

\* process_post i returned (post.id, analysis, None): its save_signal call
\* committed the signal row and the processed flag
TaskSaved(i) ==
    /\ tasks[i].pc = "done"
    /\ ~tasks[i].error
    /\ tasks[i].analysis.state # "none"

\* the row save_signal wrote for task i is in the signals table sigs and the
\* post of the task is marked processed in the posts table tbl
SavedIn(i, sigs, tbl) ==
    /\ \E k \in DOMAIN sigs :
          sigs[k] = signal_row(tasks[i].post, run_id, tasks[i].analysis)
    /\ tbl[tasks[i].post].present
    /\ tbl[tasks[i].post].processed = 1

\* C26: partial results committed before a run fails or is cancelled are
\* preserved: after every step from the failure to the end of run_pipeline
\* (the update of the Run row, the close of the store) the committed
\* database holds, as it was written, the signal row of every post task that
\* had completed, with the post's processed flag set, and so does the store
\* once it is closed.
C26_PartialResultsPreserved ==
    [][(pc \notin {"idle", "done"} /\ exc' # "none") =>
          \A i \in DOMAIN tasks' :
              TaskSaved(i)' =>
                  /\ SavedIn(i, disk.signals, disk.posts)'
                  /\ pc' = "done" => SavedIn(i, tbl_signals, tbl_posts)'
    ]_vars

\* a run that failed after one of its post tasks had saved its signal: the
\* Run row is 'failed', the store is closed, and the signal and the
\* processed flag of that task are in the database
C26_Witness ==
    /\ Raised
    /\ exc = "DatabaseError"
    /\ ~conn
    /\ run_id # NoRun
    /\ disk.runs[run_id].status = "failed"
    /\ \E i \in DOMAIN tasks :
          TaskSaved(i) /\ SavedIn(i, tbl_signals, tbl_posts)

\* a run cancelled while one post task had saved its signal and another had
\* not finished
C26_WitnessCancelled ==
    /\ Raised
    /\ exc = "CancelledError"
    /\ \E i, j \in DOMAIN tasks :
          /\ TaskSaved(i) /\ SavedIn(i, tbl_signals, tbl_posts)
          /\ tasks[j].pc = "cancelled"

\* the total_score column of a signal row is the sum of its five dimension
\* columns
SumsUp(row) ==
    row.total_score = row.practicality + row.profitability + row.distribution
                          + row.competition + row.moat

\* C27: for every persisted signal, total_score = practicality +
\* profitability + distribution + competition + moat.
C27_TotalIsSumOfDimensions ==
    /\ \A k \in DOMAIN tbl_signals : SumsUp(tbl_signals[k])
    /\ \A k \in DOMAIN disk.signals : SumsUp(disk.signals[k])

\* two committed signals with different non-zero dimension scores, of
\* totals 6 and 9, and one saved without a score
C27_Witness ==
    \E a, b, c \in DOMAIN disk.signals :
        /\ disk.signals[a].total_score = 6 /\ disk.signals[a].moat = 1
        /\ disk.signals[b].total_score = 9 /\ disk.signals[b].practicality = 3
        /\ disk.signals[c].total_score = 0 /\ disk.signals[c].extraction_state = "not_extractable"

\* the link has a /comments/{id}/ part: a "comments" segment followed by a
\* non-empty segment and a '/'
HasCommentsId(l, i) ==
    /\ i \in DOMAIN l.segments
    /\ l.segments[i] = comments_segment
    /\ i + 1 \in DOMAIN l.segments
    /\ l.segments[i + 1] # <<>>
    /\ (i + 1 < Len(l.segments) \/ l.slash)

\* the ids of the posts of a parsed feed
FeedIds == [k \in DOMAIN feed.posts |-> feed.posts[k].id]

\* C28: a listing entry whose permalink contains /comments/{id}/ yields a
\* Post whose id is {id}, and only entries without such a part are dropped;
\* the feed of the one entry with permalink .../comments/t3_12345/title/
\* yields exactly one Post, of id t3_12345.
C28_CommentsIdYieldsPost ==
    /\ \A e \in DOMAIN feed.entries :
          \A i \in DOMAIN feed.entries[e].link.segments :
              (/\ HasCommentsId(feed.entries[e].link, i)
               /\ \A j \in 1..(i - 1) : ~HasCommentsId(feed.entries[e].link, j)) =>
                  \E k \in DOMAIN feed.posts :
                      /\ feed.posts[k].id = feed.entries[e].link.segments[i + 1]
                      /\ feed.posts[k].permalink = feed.entries[e].link
    /\ Len(feed.posts) =
          Cardinality({e \in DOMAIN feed.entries :
                          \E i \in DOMAIN feed.entries[e].link.segments :
                              HasCommentsId(feed.entries[e].link, i)})
    /\ (/\ Len(feed.entries) = 1
        /\ \E i \in DOMAIN feed.entries[1].link.segments :
              /\ HasCommentsId(feed.entries[1].link, i)
              /\ feed.entries[1].link.segments[i + 1] =
                    <<"t", "3", "_", "1", "2", "3", "4", "5">>) =>
          FeedIds = <<<<"t", "3", "_", "1", "2", "3", "4", "5">>>>

\* a child of the comment page that is a comment with a body to keep
Acceptable(child) ==
    /\ child.kind = "t1"
    /\ child.body \notin {"", "[deleted]", "[removed]"}

\* C29: _scrape_comments takes t1 items in order until limit bodies are
\* accepted, skipping items that are not t1 or whose body is missing,
\* '[deleted]' or '[removed]': it returns min(limit, number of acceptable
\* comments of the page) comments, wherever the skipped items sit.
C29_SkipsUntilLimitAccepted ==
    Len(comment_page.comments) =
        Min(comment_page.limit,
            Cardinality({k \in DOMAIN comment_page.children :
                            Acceptable(comment_page.children[k])}))

\* the step is the arrival of a response of the given status for the GET
\* task t has in flight
ResponseStep(t, status) ==
    \E ra \in RetryAftersOf(status), j \in JittersOf(status) :
        \/ fetch_rss_response(t, status, ra, j)
        \/ \E cs \in CommentListsOf(status) :
              scrape_comments_response(t, status, cs, ra, j)

\* the step ends the request of task t: no GET follows for its URL, neither
\* at once nor after a sleep
EndsRequest(t) ==
    /\ fetch_tasks'[t].gets = fetch_tasks[t].gets
    /\ fetch_tasks'[t].slept = 0
    /\ fetch_tasks[t].pc = "rss" => fetch_tasks'[t].pc \in {"c_wait", "done", "failed"}
    /\ fetch_tasks[t].pc = "c_get" => fetch_tasks'[t].pc \in {"c_wait", "done", "failed"}

\* the step ends the request of task t with an empty result: no post from
\* the listing, no comment for the post
EmptyResult(t) ==
    /\ fetch_tasks[t].pc = "rss" =>
          fetch_tasks'[t].listing = "empty" /\ fetch_tasks'[t].posts = <<>>
    /\ fetch_tasks[t].pc = "c_get" =>
          /\ fetch_tasks'[t].pc # "failed"
          /\ fetch_tasks'[t].posts[fetch_tasks[t].k].top_comments = <<>>

\* C30: a 403 or 404 response, and any other non-2xx response that is not
\* 429 or 5xx, ends the request at that GET, with no retry and no sleep (a
\* 403 or 404 with an empty result); a response is followed by another GET
\* for the same URL, at once or after a sleep, only when it is a 429, a 5xx
\* or a transport error.
C30_StatusFixesRequests ==
    [][\A t \in DOMAIN fetch_tasks :
          (/\ fetch_tasks[t].pc \in {"rss", "c_get"}
           /\ fa_pc' = "gather"
           /\ fetch_tasks'[t] # fetch_tasks[t]) =>
              /\ \A status \in {"403", "404", "400"} :
                    ResponseStep(t, status) => EndsRequest(t)
              /\ \A status \in {"403", "404"} :
                    ResponseStep(t, status) => EmptyResult(t)
              /\ ~EndsRequest(t) =>
                    \E status \in {"429", "500", "timeout"} : ResponseStep(t, status)
    ]_vars

\* one listing request ended at its first GET with an empty result while
\* the other one went through a retry and a second GET
C30_Witness ==
    /\ fa_pc = "gather"
    /\ \E t, u \in DOMAIN fetch_tasks :
          /\ fetch_tasks[t].listing = "empty"
          /\ fetch_tasks[t].pc = "done"
          /\ fetch_tasks[t].gets = 1
          /\ ~fetch_tasks[t].second
          /\ fetch_tasks[u].pc = "rss"
          /\ fetch_tasks[u].gets = 2

\* C31: every signal that a run of the cluster command writes a cluster_id
\* on is one of the unclustered items the run handed to the Clusterer, and
\* so had no cluster id before: a cluster id, once set, is not overwritten
\* by a later clustering run.
C31_ClusterIdsOnItemsOnly ==
    [][clustered' # clustered =>
         \A i \in DOMAIN tbl_signals :
             tbl_signals'[i].cluster_id # tbl_signals[i].cluster_id =>
                 /\ i \in clustered'.items
                 /\ tbl_signals[i].cluster_id = NoCluster
    ]_vars

\* C32: when run_pipeline is given a process limit (any integer >= 0, with
\* fetch_new true or false), the number of post tasks handed to gather is at
\* most that limit.
C32_AtMostProcessLimit ==
    (pc \in {"gather", "get_top_signals", "update_run", "get_stats"}
        /\ process_limit # NoLimit) =>
        Len(tasks) <= process_limit

\* the committed signal rows inserted with the id of the run
RunSignals == {k \in DOMAIN disk.signals : disk.signals[k].run_id = run_id}

\* C33: for every completed run, the signals_saved value of the Run row
\* equals the signals_saved value of the returned PipelineResult, and both
\* equal the number of signal rows inserted with the run's id.
C33_SignalsSavedAgree ==
    (Returned /\ run_id # NoRun) =>
        /\ disk.runs[run_id].signals_saved = pipeline_result.signals_saved
        /\ pipeline_result.signals_saved = Cardinality(RunSignals)

\* C34: every persisted signal whose extraction_state is 'disqualified' has
\* its disqualified flag set to 1, also when the analysis carried no score,
\* so that get_top_signals without include_disqualified returns none of
\* them.
C34_DisqualifiedStateSetsFlag ==
    /\ \A k \in DOMAIN disk.signals :
          disk.signals[k].extraction_state = "disqualified" =>
              disk.signals[k].disqualified = 1
    /\ ~top_signals.include_disqualified =>
          \A k \in DOMAIN top_signals.rows :
              top_signals.rows[k].extraction_state # "disqualified"

\* the exception process_post i caught was raised by save_signal, after
\* analyze_post had returned its analysis
SaveFailed(i) ==
    tasks[i].message \in {<<"IntegrityError">>, <<"OperationalError">>}

\* C35: every post task returns a triple with exactly one of analysis and
\* error set; a task whose analysis succeeded and whose save_signal raised
\* returns the error and no analysis; so for every completed run
\* posts_analyzed + errors is the number of posts handed to analysis, in the
\* Run row and in the PipelineResult, and the failed saves are among the
\* errors.
C35_AnalysisOrErrorPerPost ==
    /\ \A i \in DOMAIN tasks :
          tasks[i].pc = "done" =>
              /\ tasks[i].error # (tasks[i].analysis.state # "none")
              /\ SaveFailed(i) => (tasks[i].error /\ tasks[i].analysis.state = "none")
    /\ (Returned /\ run_id # NoRun) =>
          /\ disk.runs[run_id].posts_analyzed + disk.runs[run_id].errors = Len(tasks)
          /\ pipeline_result.posts_analyzed + pipeline_result.errors = Len(posts)
          /\ Len(tasks) = Len(posts)
          /\ disk.runs[run_id].errors >= Cardinality({i \in DOMAIN tasks : SaveFailed(i)})
          /\ disk.runs[run_id].posts_analyzed =
                Cardinality({i \in DOMAIN tasks : ~tasks[i].error})

\* a completed run over two posts: the analysis of one was saved, the
\* save_signal of the other raised after analyze_post had returned, and the
\* Run row counts one analysed post and one error
C35_Witness ==
    /\ Returned
    /\ run_id # NoRun
    /\ Len(tasks) = 2
    /\ disk.runs[run_id].posts_analyzed = 1
    /\ disk.runs[run_id].errors = 1
    /\ \E i, j \in DOMAIN tasks :
          /\ SaveFailed(i) /\ tasks[i].error
          /\ ~tasks[j].error /\ tasks[j].analysis.state # "none"

\* the summary of the extraction is a "no viable" sentinel
IsSentinel(extraction) ==
    extraction.signal_summary \in {"No viable signal", "no viable signal"}

\* the post ids of the list are pairwise distinct
DistinctPostIds(ideas) ==
    \A a, b \in DOMAIN ideas : a # b => ideas[a].post_id # ideas[b].post_id

\* C36: in the output of dedupe_ideas a sentinel item ("no viable" summary)
\* never absorbs a duplicate: every cluster of a sentinel has an empty
\* duplicate list; and it is never listed as a duplicate: every listed
\* duplicate id is the post id of an item that is not a sentinel, and with
\* pairwise distinct post ids every sentinel is the canonical of a cluster
\* of its own and its post id is in no duplicate list; whatever the
\* similarity of the sentinel to the other items.
C36_SentinelsNeverMerge ==
    deduped.pc # "idle" =>
        LET ideas == deduped.ideas
            cl == deduped.clusters
        IN /\ \A c \in DOMAIN cl :
                 IsSentinel(cl[c].extraction) => cl[c].duplicates = <<>>
           /\ \A c \in DOMAIN cl : \A d \in DOMAIN cl[c].duplicates :
                 \E k \in DOMAIN ideas :
                     /\ ideas[k].post_id = cl[c].duplicates[d]
                     /\ ~IsSentinel(ideas[k].extraction)
           /\ DistinctPostIds(ideas) =>
                 \A k \in DOMAIN ideas :
                     IsSentinel(ideas[k].extraction) =>
                         /\ \E c \in DOMAIN cl :
                               /\ cl[c].post_id = ideas[k].post_id
                               /\ cl[c].extraction = ideas[k].extraction
                         /\ \A c \in DOMAIN cl : \A d \in DOMAIN cl[c].duplicates :
                               cl[c].duplicates[d] # ideas[k].post_id

\* two sentinels with equal summaries around an ordinary idea, at the
\* lowest threshold and with the highest similarity of unequal texts: three
\* clusters, none with a duplicate
C36_Witness ==
    /\ deduped.pc = "once"
    /\ deduped.threshold = 50
    /\ deduped.ratio = 100
    /\ Len(deduped.ideas) = 3
    /\ DistinctPostIds(deduped.ideas)
    /\ IsSentinel(deduped.ideas[1].extraction)
    /\ ~IsSentinel(deduped.ideas[2].extraction)
    /\ IsSentinel(deduped.ideas[3].extraction)
    /\ Len(deduped.clusters) = 3
    /\ \A c \in DOMAIN deduped.clusters : deduped.clusters[c].duplicates = <<>>

\* the places of the output that hold post id: <<c, 0>> for the canonical of
\* cluster c, <<c, d>> for entry d of its duplicate list
Places(cl, id) ==
    {<<c, 0>> : c \in {x \in DOMAIN cl : cl[x].post_id = id}} \cup
    {pl \in (DOMAIN cl) \X (1..MaxIdeas) :
        /\ pl[2] \in DOMAIN cl[pl[1]].duplicates
        /\ cl[pl[1]].duplicates[pl[2]] = id}

\* the position of post id in the input list
PositionOf(ideas, id) == CHOOSE k \in DOMAIN ideas : ideas[k].post_id = id

\* C37: for an input list with pairwise distinct post ids the output of
\* dedupe_ideas is a partition of the input: every input post id is in
\* exactly one place, a canonical or an entry of one duplicate list, and the
\* output holds no other id; the canonicals come in input order and every
\* duplicate comes later in the input than its canonical.
C37_OutputPartitionsInput ==
    (deduped.pc # "idle" /\ DistinctPostIds(deduped.ideas)) =>
        LET ideas == deduped.ideas
            cl == deduped.clusters
            ids == {ideas[k].post_id : k \in DOMAIN ideas}
        IN /\ \A id \in ids : Cardinality(Places(cl, id)) = 1
           /\ \A c \in DOMAIN cl :
                 /\ cl[c].post_id \in ids
                 /\ \A d \in DOMAIN cl[c].duplicates : cl[c].duplicates[d] \in ids
           /\ \A a, b \in DOMAIN cl :
                 a < b => PositionOf(ideas, cl[a].post_id) < PositionOf(ideas, cl[b].post_id)
           /\ \A c \in DOMAIN cl : \A d \in DOMAIN cl[c].duplicates :
                 PositionOf(ideas, cl[c].duplicates[d]) > PositionOf(ideas, cl[c].post_id)

\* three ideas of distinct post ids: the third is a duplicate of the first
\* and the second, in between, is the canonical of a cluster of its own
C37_Witness ==
    /\ deduped.pc = "once"
    /\ Len(deduped.ideas) = 3
    /\ DistinctPostIds(deduped.ideas)
    /\ Len(deduped.clusters) = 2
    /\ deduped.clusters[1].post_id = deduped.ideas[1].post_id
    /\ deduped.clusters[1].duplicates = <<deduped.ideas[3].post_id>>
    /\ deduped.clusters[2].post_id = deduped.ideas[2].post_id
    /\ deduped.clusters[2].duplicates = <<>>

\* C38: resources are closed on all exit paths: once fetch_all_subreddits
\* has returned or raised its HTTP client is closed, no GET is in flight on
\* a closed client, and whenever run_pipeline is not running (it returned,
\* raised or was cancelled) the store connection it opened is closed.
C38_ResourcesClosedOnExit ==
    /\ fa_pc \in {"done", "raised"} => client = "closed"
    /\ client = "closed" => InFlight = {}
    /\ pc \in {"idle", "done"} => ~conn

\* the positions of one iteration of the comment loop
CommentSection == {"c_delay", "c_get", "c_sleep"}

\* C39: in the comment loop the order of events of every per-post request
\* is acquire permit, sleep the delay, issue the GET, release permit: the
\* delay starts in the step that takes a permit, a GET is first issued only
\* after the delay (or repeated after the sleep that follows a 429) with no
\* permit given back in between, the permit is given back only when the GET
\* has been answered, and the coroutines sleeping the delay are among the
\* permit holders.
C39_DelayUnderPermit ==
    [][\A t \in DOMAIN fetch_tasks \cap DOMAIN fetch_tasks' :
          LET a == fetch_tasks[t].pc
              b == fetch_tasks'[t].pc
          IN /\ (b = "c_delay" /\ a # "c_delay") =>
                    (a = "c_wait" /\ fetch_sem > 0 /\ fetch_sem' = fetch_sem - 1)
             /\ (a = "c_wait" /\ b # "c_wait") => b = "c_delay"
             /\ (b = "c_get" /\ a # "c_get") =>
                    (a \in {"c_delay", "c_sleep"} /\ fetch_sem' = fetch_sem)
             /\ (b = "c_sleep" /\ a # "c_sleep") =>
                    (a = "c_get" /\ fetch_sem' = fetch_sem)
             /\ (a \in CommentSection /\ b \notin CommentSection) =>
                    (a = "c_get" /\ fetch_sem' = fetch_sem + 1)
             /\ fa_pc' = "gather" =>
                    Cardinality({u \in DOMAIN fetch_tasks' :
                                    fetch_tasks'[u].pc \in CommentSection})
                        <= fetch_max_concurrency' - fetch_sem'
    ]_vars

\* max_concurrency = 1: the request for the comments of the second post of
\* a subreddit is in flight, after its delay, while the other coroutine
\* waits for the permit to scrape its own comments
C39_Witness ==
    /\ fa_pc = "gather"
    /\ fetch_max_concurrency = 1
    /\ fetch_sem = 0
    /\ \E t, u \in DOMAIN fetch_tasks :
          /\ fetch_tasks[t].pc = "c_get"
          /\ fetch_tasks[t].k = 2
          /\ fetch_tasks[t].gets = 1
          /\ fetch_tasks[u].pc = "c_wait"

\* the fetch_posts coroutines inside an `async with sem` block
PermitHolders == {t \in DOMAIN fetch_tasks : holds_permit(fetch_tasks[t].pc)}

\* C40: both fan-outs are deadlock-free and terminate. A coroutine that
\* waits for a permit holds none (the permits taken are exactly those of the
\* coroutines inside their `async with` block), every permit is back when
\* the fan-out is over, whichever way each coroutine ended, and whenever
\* fetch_all_subreddits or run_pipeline awaits its gather the gather
\* eventually completes, given that every request and LLM call is answered.
C40_FanOutsTerminate ==
    /\ [](fa_pc = "gather" =>
             Cardinality(PermitHolders) = fetch_max_concurrency - fetch_sem)
    /\ [](pc = "gather" => Cardinality(InSection) = max_concurrency - sem)
    /\ [](fa_pc = "done" => fetch_sem = fetch_max_concurrency)
    /\ [](pc = "get_top_signals" => (AllDone /\ sem = max_concurrency))
    /\ (fa_pc = "gather" ~> fa_pc = "done")
    /\ (pc = "gather" ~> pc = "get_top_signals")

\* max_concurrency = 1: fetch_all_subreddits is over with one coroutine
\* that returned posts and one whose exception propagated out of fetch_posts,
\* and the permit is back
C40_Witness ==
    /\ fa_pc = "done"
    /\ fetch_max_concurrency = 1
    /\ fetch_sem = 1
    /\ \E t, u \in DOMAIN fetch_tasks :
          /\ fetch_tasks[t].pc = "failed"
          /\ fetch_tasks[u].pc = "done"
          /\ fetch_tasks[u].posts # <<>>

\* max_concurrency = 1: the analysis gather is over with one post saved and
\* one whose task caught an error, and the permit is back
C40_WitnessGather ==
    /\ pc = "get_top_signals"
    /\ max_concurrency = 1
    /\ sem = 1
    /\ \E i, j \in DOMAIN tasks : tasks[i].error /\ ~tasks[j].error

====
